---- MODULE Spec2Model ----
(***************************************************************************)
(* A model of the similarity engine of src/dataset.py: the cached term     *)
(* similarity matrix, the word mover's distance worker pool, the encoders  *)
(* of get_similarities and the grid search of Dataset.classify.            *)
(***************************************************************************)
EXTENDS Integers, Sequences, FiniteSets, TLC

(***************************************************************************)
(* Floating point values.  A value is s * sqrt(n / d) with s the sign and  *)
(* n / d a reduced fraction, or one of the IEEE specials inf, -inf, nan.   *)
(* Every value the modelled code produces on the modelled inputs is of     *)
(* this form, so the arithmetic below is exact.                            *)
(***************************************************************************)
RECURSIVE GCD(_, _)
GCD(a, b) == IF b = 0 THEN a ELSE GCD(b, a % b)

Abs(x) == IF x < 0 THEN -x ELSE x

Sign(x) == IF x < 0 THEN -1 ELSE IF x = 0 THEN 0 ELSE 1

IsSquare(x) == \E r \in 0..x : r * r = x

ISqrt(x) == CHOOSE r \in 0..x : r * r = x

NaN == [k |-> "nan", s |-> 0, n |-> 0, d |-> 1]

Inf(sg) == [k |-> "inf", s |-> sg, n |-> 0, d |-> 1]

PosInf == Inf(1)

Zero == [k |-> "fin", s |-> 0, n |-> 0, d |-> 1]

\* sg * sqrt(nn / dd), reduced
Root(sg, nn, dd) ==
    IF sg = 0 \/ nn = 0 THEN Zero
    ELSE LET g == GCD(nn, dd) IN [k |-> "fin", s |-> sg, n |-> nn \div g, d |-> dd \div g]

\* the fraction p / q, q > 0
Frac(p, q) == Root(Sign(p), p * p, q * q)

Int2Num(p) == Frac(p, 1)

IsFinite(a) == a.k = "fin"

IsNaN(a) == a.k = "nan"

IsZero(a) == a.k = "fin" /\ a.s = 0

Neg(a) == [a EXCEPT !.s = -a.s]

FMul(a, b) ==
    IF a.k = "nan" \/ b.k = "nan" THEN NaN
    ELSE IF a.k = "inf" \/ b.k = "inf"
         THEN IF a.s * b.s = 0 THEN NaN ELSE Inf(a.s * b.s)
    ELSE Root(a.s * b.s, a.n * b.n, a.d * b.d)

\* the sum of two finite values that are rational multiples of one another
FinAdd(a, b) ==
    IF a.s = 0 THEN b
    ELSE IF b.s = 0 THEN a
    ELSE LET gn == GCD(a.n, b.n)
             gd == GCD(a.d, b.d)
             p2 == (a.n \div gn) * (b.d \div gd)
             r2 == (a.d \div gd) * (b.n \div gn)
         IN  IF IsSquare(p2) /\ IsSquare(r2)
             THEN LET p  == ISqrt(p2)
                      r  == ISqrt(r2)
                      t  == a.s * p + b.s * r
                      h  == GCD(b.n, r * r)
                      n1 == b.n \div h
                      d1 == (r * r) \div h
                      h1 == GCD(t * t, b.d)
                      h2 == GCD((t * t) \div h1, d1)
                  IN  Root(Sign(t), (((t * t) \div h1) \div h2) * n1,
                           (d1 \div h2) * (b.d \div h1))
             ELSE [k |-> "irrational", s |-> 0, n |-> 0, d |-> 1]

FAdd(a, b) ==
    IF a.k = "nan" \/ b.k = "nan" THEN NaN
    ELSE IF a.k = "inf" /\ b.k = "inf" THEN (IF a.s = b.s THEN a ELSE NaN)
    ELSE IF a.k = "inf" THEN a
    ELSE IF b.k = "inf" THEN b
    ELSE FinAdd(a, b)

\* numpy's 1 / x: a division by zero is inf and a warning, not an exception
NpRecip(a) ==
    IF a.k = "nan" THEN NaN
    ELSE IF a.k = "inf" THEN Zero
    ELSE IF a.s = 0 THEN PosInf
    ELSE Root(a.s, a.d, a.n)

\* numpy's sqrt of a rational value: nan for a negative argument
NpSqrt(a) ==
    IF a.k = "nan" THEN NaN
    ELSE IF a.k = "inf" THEN (IF a.s > 0 THEN a ELSE NaN)
    ELSE IF a.s < 0 THEN NaN
    ELSE IF a.s = 0 THEN Zero
    ELSE Root(1, ISqrt(a.n), ISqrt(a.d))

RECURSIVE FSum(_)
FSum(seq) == IF seq = <<>> THEN Zero ELSE FAdd(Head(seq), FSum(Tail(seq)))

RECURSIVE SetToSeq(_)
SetToSeq(S) == IF S = {} THEN <<>>
               ELSE LET x == CHOOSE y \in S : \A z \in S : y <= z
                    IN  <<x>> \o SetToSeq(S \ {x})

\* the sum of f[x] over the integers x of S, in increasing order
FSumOver(S, f) == FSum([i \in 1..Cardinality(S) |-> f[SetToSeq(S)[i]]])

FDiv(a, b) == FMul(a, NpRecip(b))

\* the numerator and the denominator of a rational value
RatNum(a) == a.s * ISqrt(a.n)

RatDen(a) == ISqrt(a.d)

RECURSIVE SumOver(_, _)
SumOver(S, f) == IF S = {} THEN 0
                 ELSE LET x == CHOOSE y \in S : TRUE IN f[x] + SumOver(S \ {x}, f)

Max(S) == CHOOSE x \in S : \A y \in S : y <= x

Min(S) == CHOOSE x \in S : \A y \in S : x <= y

RECURSIVE LCMOf(_)
LCMOf(S) == IF S = {} THEN 1
            ELSE LET x == CHOOSE y \in S : TRUE
                     l == LCMOf(S \ {x})
                 IN  (x * l) \div GCD(x, l)

(***************************************************************************)
(* Tokens, dictionaries and bag-of-words documents.  A token is a string,  *)
(* a tokenized document a sequence of tokens, a dictionary the token2id    *)
(* map of a gensim Dictionary (ids from 0), and a BOW document a sequence  *)
(* of <<term id, weight>> pairs in increasing order of term id.            *)
(***************************************************************************)
Tokens == {"a", "bb", "ccc", "dddd"}

\* the sorting order of the tokens
TokenRank == [t \in Tokens |->
                 IF t = "a" THEN 1 ELSE IF t = "bb" THEN 2 ELSE IF t = "ccc" THEN 3 ELSE 4]

TokensOf(document) == {document[i] : i \in 1..Len(document)}

Count(document, token) == Cardinality({i \in 1..Len(document) : document[i] = token})

\* the tokens of S in sorting order
RECURSIVE SortTokens(_)
SortTokens(S) == IF S = {} THEN <<>>
                 ELSE LET t == CHOOSE x \in S : \A y \in S : TokenRank[x] <= TokenRank[y]
                      IN  <<t>> \o SortTokens(S \ {t})

\* gensim's Dictionary(corpus): the unseen tokens of each document get the
\* next free ids, in sorting order
RECURSIVE AddTokens(_, _)
AddTokens(token2id, tokens) ==
    IF tokens = <<>> THEN token2id
    ELSE AddTokens(token2id @@ (Head(tokens) :> Cardinality(DOMAIN token2id)), Tail(tokens))

RECURSIVE Dictionary(_)
Dictionary(corpus) ==
    IF corpus = <<>> THEN <<>>
    ELSE LET token2id == Dictionary(SubSeq(corpus, 1, Len(corpus) - 1))
             document == corpus[Len(corpus)]
         IN  AddTokens(token2id, SortTokens(TokensOf(document) \ DOMAIN token2id))

\* dictionary[term_id]
IdToken(token2id, term_id) == CHOOSE t \in DOMAIN token2id : token2id[t] = term_id

\* the document frequency of a token in a corpus
DocFreq(corpus, token) == Cardinality({i \in 1..Len(corpus) : token \in TokensOf(corpus[i])})

\* gensim's Dictionary.doc2bow: the counts of the known tokens, sorted by id
doc2bow(token2id, document) ==
    LET known == TokensOf(document) \cap DOMAIN token2id
        ids   == SetToSeq({token2id[t] : t \in known})
    IN  [i \in 1..Len(ids) |-> <<ids[i], Int2Num(Count(document, IdToken(token2id, ids[i])))>>]

\* gensim's matutils.unitvec on a BOW document: an empty document is
\* returned unchanged
unitvec(vec, norm) ==
    IF vec = <<>> THEN vec
    ELSE LET length == IF norm = "l1"
                       THEN FSum([i \in 1..Len(vec) |-> [vec[i][2] EXCEPT !.s = Abs(@)]])
                       ELSE NpSqrt(FSum([i \in 1..Len(vec) |-> FMul(vec[i][2], vec[i][2])]))
         IN  [i \in 1..Len(vec) |-> <<vec[i][1], FDiv(vec[i][2], length)>>]

\* dict(document)
DocDict(document) ==
    [t \in {document[i][1] : i \in 1..Len(document)} |->
        (CHOOSE w \in {document[i][2] : i \in {j \in 1..Len(document) : document[j][1] = t}} : TRUE)]

\* sum(len(token) for token in document): Len is the character length of a
\* string and the number of components of a tuple, as len is in Python
RECURSIVE SumLen(_)
SumLen(document) == IF document = <<>> THEN 0
                    ELSE Len(Head(document)) + SumLen(Tail(document))

(***************************************************************************)
(* The process-wide data of the module: the common corpus, the word        *)
(* embeddings of the two quantization levels (of dimension one, so that    *)
(* every Euclidean distance is an integer) and the embedding matrices.     *)
(***************************************************************************)
CommonCorpus == << <<"a", "bb", "ccc">> >>

NumBitsSet == {1, 32}

\* KeyedVectors: vocab maps a token to its row of vectors ("ccc" has no
\* embedding, and the 1-bit embeddings of "a" and "bb" coincide)
CommonEmbeddings ==
    [b \in NumBitsSet |->
        IF b = 1
        THEN [vocab |-> ("a" :> 0) @@ ("bb" :> 1), vectors |-> (0 :> 1) @@ (1 :> 1)]
        ELSE [vocab |-> ("bb" :> 0) @@ ("a" :> 1), vectors |-> (0 :> 3) @@ (1 :> 1)]]

\* line 857: zip(*()) of no pair is empty, and unpacking it into two names
\* raises ValueError; the exception stands where a matrix would, as a
\* function no matrix can be (the rows of a matrix are numbered from 0)
ValueError == [term_id \in {-1} |-> 0]

\* lines 853-863: the rows of the terms that have an embedding are copied
\* into a matrix of zeros
translate_embeddings(embeddings, dictionary) ==
    IF \A token \in DOMAIN dictionary : token \notin DOMAIN embeddings.vocab
    THEN ValueError
    ELSE [term_id \in 0..(Cardinality(DOMAIN dictionary) - 1) |->
             IF IdToken(dictionary, term_id) \in DOMAIN embeddings.vocab
             THEN embeddings.vectors[embeddings.vocab[IdToken(dictionary, term_id)]]
             ELSE 0]

\* (embedding_matrix**2).sum(axis=1)
NormSquared(embedding_matrix) ==
    [term_id \in DOMAIN embedding_matrix |-> embedding_matrix[term_id] * embedding_matrix[term_id]]

(***************************************************************************)
(* Datasets.                                                               *)
(***************************************************************************)
from_documents(corpus, name, target) ==
    [name       |-> name,
     corpus     |-> corpus,
     avgdl      |-> Frac(SumOver(1..Len(corpus), [i \in 1..Len(corpus) |-> SumLen(corpus[i])]),
                         Len(corpus)),
     dictionary |-> Dictionary(corpus),
     target     |-> target]

(***************************************************************************)
(* The word mover's distance worker.                                       *)
(***************************************************************************)
\* sklearn's euclidean_distances with precomputed squared norms
euclidean_distances(X, X_norm_squared) ==
    [p \in (DOMAIN X) \X (DOMAIN X) |->
        ISqrt(X_norm_squared[p[1]] - 2 * X[p[1]] * X[p[2]] + X_norm_squared[p[2]])]

\* pyemd's emd (extra_mass_penalty = -1): the least cost of moving the
\* smaller of the two masses, plus the largest distance for every unit of
\* mass left over.  The histograms are scaled to integers by the common
\* denominator scale; an optimal flow of integer masses is an integer flow.
EmdFlows(A, B) ==
    LET SA == {i \in DOMAIN A : A[i] > 0}
        SB == {j \in DOMAIN B : B[j] > 0}
        m  == Min({SumOver(SA, A), SumOver(SB, B)})
    IN  {F \in [SA \X SB -> 0..m] :
            /\ \A i \in SA : SumOver(SB, [j \in SB |-> F[<<i, j>>]]) <= A[i]
            /\ \A j \in SB : SumOver(SA, [i \in SA |-> F[<<i, j>>]]) <= B[j]
            /\ SumOver(SA \X SB, F) = m}

emd(first_histogram, second_histogram, distance_matrix) ==
    LET U     == DOMAIN first_histogram
        scale == LCMOf({RatDen(first_histogram[i]) : i \in U}
                       \cup {RatDen(second_histogram[i]) : i \in U})
        A     == [i \in U |-> RatNum(first_histogram[i]) * (scale \div RatDen(first_histogram[i]))]
        B     == [i \in U |-> RatNum(second_histogram[i]) * (scale \div RatDen(second_histogram[i]))]
        cost(F) == SumOver(DOMAIN F, [p \in DOMAIN F |-> F[p] * distance_matrix[p]])
        extra == Abs(SumOver(U, A) - SumOver(U, B)) * Max({distance_matrix[p] : p \in U \X U})
    IN  Frac(Min({cost(F) : F \in EmdFlows(A, B)}) + extra, scale)

Get(document, term_id, default) ==
    IF term_id \in DOMAIN document THEN document[term_id] ELSE default

\* Python's float division: a zero divisor raises ZeroDivisionError
ZeroDivisionError == [k |-> "ZeroDivisionError", s |-> 0, n |-> 0, d |-> 1]

PyDiv(a, b) == IF IsZero(b) THEN ZeroDivisionError ELSE FDiv(a, b)

\* InverseDistance without the test for a zero distance
InverseDistanceUnguarded(distance) == PyDiv(Int2Num(1), distance)

\* lines 777-780: the result of inverse_wmd_worker for the given distance
InverseDistance(distance) ==
    IF IsZero(distance) THEN PosInf ELSE PyDiv(Int2Num(1), distance)

\* the distance inverse_wmd_worker computes for two documents with terms
WorkerDistance(query_document, collection_document, embedding_matrix, embedding_matrix_norm_squared) ==
    LET shared_terms == DOMAIN query_document \cup DOMAIN collection_document
        translated_query_document == [x \in shared_terms |-> Get(query_document, x, Zero)]
        translated_collection_document == [x \in shared_terms |-> Get(collection_document, x, Zero)]
        shared_embedding_matrix == [x \in shared_terms |-> embedding_matrix[x]]
        shared_embedding_matrix_norm_squared == [x \in shared_terms |-> embedding_matrix_norm_squared[x]]
        distance_matrix == euclidean_distances(shared_embedding_matrix, shared_embedding_matrix_norm_squared)
    IN  emd(translated_collection_document, translated_query_document, distance_matrix)

\* SharedTerms as the terms the two documents have in common
SharedTermsCommon(query_document, collection_document) ==
    DOMAIN DocDict(query_document) \cap DOMAIN DocDict(collection_document)

\* line 760: the terms inverse_wmd_worker calls shared, those of either document
SharedTerms(query_document, collection_document) ==
    DOMAIN DocDict(query_document) \cup DOMAIN DocDict(collection_document)

inverse_wmd_worker(args, embedding_matrices, embedding_matrices_norm_squared) ==
    LET row_number          == args[1][1]
        column_number       == args[2][1]
        num_bits            == args[3]
        query_document      == DocDict(args[1][2])
        collection_document == DocDict(args[2][2])
        inverse_distance ==
            IF SharedTerms(args[1][2], args[2][2]) # {}
            THEN InverseDistance(WorkerDistance(query_document, collection_document,
                                                embedding_matrices[num_bits],
                                                embedding_matrices_norm_squared[num_bits]))
            ELSE Zero
    IN  <<row_number, column_number, inverse_distance>>

(***************************************************************************)
(* The encoders of the TF-IDF path.                                        *)
(***************************************************************************)
\* TfidfModel(dictionary=..., smartirs='dtn') applied to a BOW document of
\* the dictionary's ids.  The logarithms of the scheme are replaced by the
\* rational tf * (num_docs + 1) / df, which like them is positive, grows
\* with tf and falls with df; no normalization is applied (the 'n').
TfidfModel(dataset, bow) ==
    [i \in 1..Len(bow) |->
        <<bow[i][1],
          FMul(bow[i][2],
               Frac(Len(dataset.corpus) + 1,
                    DocFreq(dataset.corpus, IdToken(dataset.dictionary, bow[i][1]))))>>]

\* the length pivot_worker computes for the document it is given
PivotDoclen(document) == SumLen(document)

pivot_worker(args) ==
    LET document == args[1]
        slope    == args[2]
        avgdl    == args[3]
        doclen   == PivotDoclen(document)
    IN  [i \in 1..Len(document) |->
            <<document[i][1],
              FDiv(document[i][2],
                   FAdd(FMul(FAdd(Int2Num(1), Neg(slope)), avgdl),
                        FMul(slope, Int2Num(doclen))))>>]

RECURSIVE SelectSeq2(_, _)
SelectSeq2(seq, keep) ==
    IF seq = <<>> THEN <<>>
    ELSE (IF Head(seq)[1] \in keep THEN <<Head(seq)>> ELSE <<>>) \o SelectSeq2(Tail(seq), keep)

\* translate_document_worker keeping the ids of the source dictionary
translate_document_worker_unmapped(args) ==
    SelectSeq2(args[1],
               {term_id \in {args[2][t] : t \in DOMAIN args[2]} :
                   IdToken(args[2], term_id) \in DOMAIN args[3]})

translate_document_worker(args) ==
    LET document          == args[1]
        source_dictionary == args[2]
        target_dictionary == args[3]
        kept == SelectSeq2(document,
                           {term_id \in {source_dictionary[t] : t \in DOMAIN source_dictionary} :
                               IdToken(source_dictionary, term_id) \in DOMAIN target_dictionary})
    IN  [i \in 1..Len(kept) |->
            <<target_dictionary[IdToken(source_dictionary, kept[i][1])], kept[i][2]>>]

(***************************************************************************)
(* The state.                                                              *)
(***************************************************************************)
VARIABLES
    common_dictionary,                       \* the shared vocabulary
    common_embedding_matrices,               \* one embedding matrix per quantization level
    common_embedding_matrices_norm_squared,  \* their precomputed squared row norms
    train,                                   \* the Dataset get_similarities is called on
    validation,                              \* the Dataset of the queries
    original,                                \* a Dataset that is saved with to_file
    loaded,                                  \* the Dataset from_file returned
    file_pc,                                 \* how far the saving and loading has got
    params,                                  \* the params dict of the call
    pc,                                      \* the position of the coordinating process
    collection_corpus,                       \* the encoded collection of get_similarities
    query_corpus,                            \* the encoded queries of get_similarities
    doc_sims,                                \* the matrix of similarities
    tasks,                                   \* the pairs the pool has not finished yet
    outqueue,                                \* the results the pool has not handed over yet
    writes,                                  \* how often each cell of doc_sims was assigned
    store,                                   \* the files of the directory matrices, by name
    calls,                                   \* cached_sparse_term_similarity_matrix: the state of each process's call
    built,                                   \* the matrices the constructor has returned, by file name
    test,                                    \* the test Dataset of classify
    classify_pc,                             \* the position of classify
    grid,                                    \* the grid points grid_search yields
    grid_index,                              \* the grid point classify is at
    k_index,                                 \* the k classify is at
    results,                                 \* the validation results
    best_result,                             \* the result max(results) selected
    final_result,                            \* the result classify returns
    accuracy_model,                          \* how the accuracy of a result depends on its params
    random_state,                            \* the state of the generator of module random
    previous_result,                         \* what the call of classify before this one returned
    similarity_calls,                        \* the calls of get_similarities classify has made
    grid_specification                       \* the grid specification classify has made

globalsV == <<common_dictionary, common_embedding_matrices, common_embedding_matrices_norm_squared>>

datasetsV == <<train, validation, original, loaded, file_pc>>

callV == <<params, pc, collection_corpus, query_corpus, doc_sims>>

poolV == <<tasks, outqueue, writes>>

cacheV == <<store, calls, built>>

classifyV == <<test, classify_pc, grid, grid_index, k_index, results, best_result, final_result,
               accuracy_model, random_state, previous_result,
               similarity_calls, grid_specification>>

vars == <<globalsV, datasetsV, callV, poolV, cacheV, classifyV>>

\* lines 1238-1261: the module-level initialization
\* no Dataset is being saved or loaded
InitNoFile ==
    /\ original = <<>>
    /\ loaded = <<>>
    /\ file_pc = "idle"

InitGlobals ==
    /\ common_dictionary = Dictionary(CommonCorpus)
    /\ common_embedding_matrices =
           [b \in NumBitsSet |-> translate_embeddings(CommonEmbeddings[b], Dictionary(CommonCorpus))]
    /\ common_embedding_matrices_norm_squared =
           [b \in NumBitsSet |->
               NormSquared(translate_embeddings(CommonEmbeddings[b], Dictionary(CommonCorpus)))]

(***************************************************************************)
(* get_similarities: the encoding of the collection and of the queries.    *)
(* Each operator yields the params dict as the code leaves it and the      *)
(* encoded corpus.                                                         *)
(***************************************************************************)
Has(dict, key) == key \in DOMAIN dict

Put(dict, key, value) == [x \in DOMAIN dict \cup {key} |-> IF x = key THEN value ELSE dict[x]]

\* lines 1120-1145
EncodeCollection(collection, p) ==
    IF p["weights"] = "tfidf"
    THEN LET p1 == IF Has(p, "collection_corpus") THEN p
                   ELSE Put(p, "collection_corpus",
                            [i \in 1..Len(collection.corpus) |->
                                doc2bow(collection.dictionary, collection.corpus[i])])
             cached == p1["collection_corpus"]
         IN  [params |-> p1,
              corpus |-> [i \in 1..Len(cached) |->
                            translate_document_worker(
                                <<pivot_worker(<<TfidfModel(collection, cached[i]),
                                                 p["slope"], collection.avgdl>>),
                                  collection.dictionary, common_dictionary>>)]]
    ELSE LET p1 == IF Has(p, "collection_corpus") THEN p
                   ELSE Put(p, "collection_corpus",
                            [i \in 1..Len(collection.corpus) |->
                                doc2bow(common_dictionary, collection.corpus[i])])
             cached == p1["collection_corpus"]
             norm == IF p["measure"] = "wmd" THEN "l1" ELSE "l2"
         IN  [params |-> p1,
              corpus |-> IF p["weights"] = "bow"
                         THEN [i \in 1..Len(cached) |-> unitvec(cached[i], norm)]
                         ELSE cached]

\* lines 1147-1170; fault is set when query_corpus is read before any
\* branch has assigned it
EncodeQueries(collection, queries, p) ==
    IF p["task"] = "classification" /\ p["weights"] = "tfidf"
    THEN LET p1 == IF Has(p, "query_corpus") THEN p
                   ELSE Put(p, "query_corpus",
                            [i \in 1..Len(queries.corpus) |->
                                doc2bow(collection.dictionary, queries.corpus[i])])
             cached == p1["query_corpus"]
         IN  [params |-> p1, fault |-> FALSE,
              corpus |-> [i \in 1..Len(cached) |->
                            translate_document_worker(
                                <<pivot_worker(<<TfidfModel(collection, cached[i]),
                                                 p["slope"], collection.avgdl>>),
                                  collection.dictionary, common_dictionary>>)]]
    ELSE IF p["task"] = "classification" /\ p["weights"] = "bow"
    THEN LET p1 == IF Has(p, "query_corpus") THEN p
                   ELSE Put(p, "query_corpus",
                            [i \in 1..Len(queries.corpus) |->
                                doc2bow(common_dictionary, queries.corpus[i])])
             cached == p1["query_corpus"]
             norm == IF p["measure"] = "wmd" THEN "l1" ELSE "l2"
         IN  [params |-> p1, fault |-> FALSE,
              corpus |-> [i \in 1..Len(cached) |-> unitvec(cached[i], norm)]]
    ELSE [params |-> p, fault |-> TRUE, corpus |-> <<>>]

(***************************************************************************)
(* get_similarities with measure == 'wmd': the worker pool.                *)
(***************************************************************************)
\* the params dict classify builds (lines 1025-1032)
BaseParams(space, weights, measure, num_bits) ==
    [key \in {"space", "weights", "measure", "num_bits", "task", "speed_logs"} |->
        CASE key = "space"    -> space
          [] key = "weights"  -> weights
          [] key = "measure"  -> measure
          [] key = "num_bits" -> num_bits
          [] key = "task"     -> "classification"
          [] OTHER            -> <<>>]

\* the bytes np.empty may hand out
Garbage == {Zero, NaN}

Cells(nrows, ncols) == (0..(nrows - 1)) \X (0..(ncols - 1))

\* product(enumerate(query_corpus), enumerate(collection_corpus), (num_bits,))
TaskArgs(cell) ==
    <<<<cell[1], query_corpus[cell[1] + 1]>>,
      <<cell[2], collection_corpus[cell[2] + 1]>>,
      params["num_bits"]>>

\* lines 1097-1173 and the dispatch of line 1175: the corpora are encoded,
\* the matrix is allocated and every pair is handed to the pool
GetSimilaritiesWmd ==
    /\ pc = "call"
    /\ params["measure"] = "wmd"
    /\ LET ec == EncodeCollection(train, params)
           eq == EncodeQueries(train, validation, ec.params)
       IN  /\ ~eq.fault
           /\ params' = eq.params
           /\ collection_corpus' = ec.corpus
           /\ query_corpus' = eq.corpus
           /\ \E g \in Garbage :
                 doc_sims' = [cell \in Cells(Len(eq.corpus), Len(ec.corpus)) |-> g]
           /\ tasks' = Cells(Len(eq.corpus), Len(ec.corpus))
           /\ writes' = [cell \in Cells(Len(eq.corpus), Len(ec.corpus)) |-> 0]
    /\ outqueue' = {}
    /\ pc' = "pool"
    /\ UNCHANGED <<globalsV, datasetsV, cacheV, classifyV>>

\* a worker process finishes one pair, in any order
WorkerReturns(cell) ==
    /\ pc = "pool"
    /\ cell \in tasks
    /\ tasks' = tasks \ {cell}
    /\ outqueue' = outqueue \cup {inverse_wmd_worker(TaskArgs(cell), common_embedding_matrices,
                                                     common_embedding_matrices_norm_squared)}
    /\ UNCHANGED <<globalsV, datasetsV, callV, writes, cacheV, classifyV>>

\* TargetCell with the coordinates exchanged
TargetCellSwapped(result) == <<result[2], result[1]>>

\* the cell the loop of lines 1175-1187 assigns for a result
TargetCell(result) == <<result[1], result[2]>>

\* lines 1175-1187: imap_unordered yields a finished result, the loop body
\* stores it at its coordinates
ReceiveResult(result) ==
    /\ pc = "pool"
    /\ result \in outqueue
    /\ outqueue' = outqueue \ {result}
    /\ doc_sims' = [doc_sims EXCEPT ![TargetCell(result)] = result[3]]
    /\ writes' = [writes EXCEPT ![TargetCell(result)] = @ + 1]
    /\ UNCHANGED <<globalsV, datasetsV, params, pc, collection_corpus, query_corpus, tasks,
                   cacheV, classifyV>>

\* line 1235: the iterator is exhausted, the pool is closed, doc_sims is
\* returned
ReturnDocSims ==
    /\ pc = "pool"
    /\ tasks = {}
    /\ outqueue = {}
    /\ pc' = "done"
    /\ UNCHANGED <<globalsV, datasetsV, params, collection_corpus, query_corpus, doc_sims, poolV,
                   cacheV, classifyV>>

MaxQueries == 2

WmdQueryDocs == {<<>>, <<"a">>, <<"bb">>}

WmdCollections == {<< <<"a">> >>, << <<>>, <<"a", "bb">> >>, << <<"bb", "dddd">>, <<"dddd">> >>}

Corpora(docs, maxlen) == UNION {[1..len -> docs] : len \in 1..maxlen}

Labels(corpus) == [i \in 1..Len(corpus) |-> i % 2]

Procs == {1, 2}

\* no call of cached_sparse_term_similarity_matrix is running, the directory
\* matrices is empty
InitCache ==
    /\ store = <<>>
    /\ calls = [p \in Procs |-> [pc |-> "idle"]]
    /\ built = <<>>

\* classify is not running
InitNoClassify ==
    /\ test = <<>>
    /\ classify_pc = "idle"
    /\ grid = <<>>
    /\ grid_index = 0
    /\ k_index = 0
    /\ results = <<>>
    /\ best_result = <<>>
    /\ final_result = <<>>
    /\ accuracy_model = "flat"
    /\ random_state = 0
    /\ previous_result = <<>>
    /\ similarity_calls = <<>>
    /\ grid_specification = <<>>

InitCall ==
    /\ pc = "call"
    /\ collection_corpus = <<>>
    /\ query_corpus = <<>>
    /\ doc_sims = <<>>
    /\ tasks = {}
    /\ outqueue = {}
    /\ writes = <<>>

InitWmd ==
    /\ InitGlobals
    /\ InitNoFile
    /\ train \in {from_documents(corpus, "train", Labels(corpus)) : corpus \in WmdCollections}
    /\ validation \in {from_documents(corpus, "validation", Labels(corpus)) :
                          corpus \in Corpora(WmdQueryDocs, MaxQueries)}
    /\ params \in {BaseParams("vsm", "bow", "wmd", num_bits) : num_bits \in NumBitsSet}
    /\ InitCall
    /\ InitCache
    /\ InitNoClassify

NextWmd ==
    \/ GetSimilaritiesWmd
    \/ \E cell \in tasks : WorkerReturns(cell)
    \/ \E result \in outqueue : ReceiveResult(result)
    \/ ReturnDocSims

SpecWmd == InitWmd /\ [][NextWmd]_vars

(***************************************************************************)
(* Properties of the worker pool (specification SpecWmd).                  *)
(***************************************************************************)
TermsOf(document) == {document[i][1] : i \in 1..Len(document)}

QueryDocOf(result) == query_corpus[result[1] + 1]

CollectionDocOf(result) == collection_corpus[result[2] + 1]

DistanceOf(result) ==
    WorkerDistance(DocDict(QueryDocOf(result)), DocDict(CollectionDocOf(result)),
                   common_embedding_matrices[params["num_bits"]],
                   common_embedding_matrices_norm_squared[params["num_bits"]])

\* C1: no cell of doc_sims is ever assigned twice, and when get_similarities
\* returns under measure 'wmd', whatever the order in which the pool
\* finished and handed over the pairs, the matrix has one cell per (query,
\* collection document) pair, each assigned exactly once and holding the
\* value inverse_wmd_worker computes for that pair.
C1_ScatterComplete ==
    /\ pc \in {"pool", "done"} => \A cell \in DOMAIN writes : writes[cell] <= 1
    /\ pc = "done" =>
          /\ DOMAIN doc_sims = Cells(Len(validation.corpus), Len(train.corpus))
          /\ \A cell \in DOMAIN doc_sims :
                /\ writes[cell] = 1
                /\ doc_sims[cell] =
                       inverse_wmd_worker(TaskArgs(cell), common_embedding_matrices,
                                          common_embedding_matrices_norm_squared)[3]

\* a call has returned a matrix of at least two rows and two columns whose
\* cells do not all hold the same value
C1_Witness ==
    /\ pc = "done"
    /\ Len(query_corpus) >= 2
    /\ Len(collection_corpus) >= 2
    /\ \E c1, c2 \in DOMAIN doc_sims : doc_sims[c1] # doc_sims[c2]

C7_InverseOfDistance ==
    \A result \in outqueue :
        TermsOf(QueryDocOf(result)) \cup TermsOf(CollectionDocOf(result)) # {} =>
            /\ result[3] # ZeroDivisionError
            /\ result[3] = PosInf <=> IsZero(DistanceOf(result))
            /\ ~IsZero(DistanceOf(result)) => FMul(result[3], DistanceOf(result)) = Int2Num(1)

\* the pool holds a result for a distance of 0 and one for a distance that
\* is not 0
C7_Witness ==
    /\ \E result \in outqueue :
          /\ TermsOf(QueryDocOf(result)) \cup TermsOf(CollectionDocOf(result)) # {}
          /\ IsZero(DistanceOf(result))
    /\ \E result \in outqueue :
          /\ TermsOf(QueryDocOf(result)) \cup TermsOf(CollectionDocOf(result)) # {}
          /\ ~IsZero(DistanceOf(result))

(***************************************************************************)
(* The cached term similarity matrix.                                      *)
(***************************************************************************)
\* A term similarity matrix: its shape and its stored (nonzero) entries by
\* <<row, column>>.
TermMatrix(sims) ==
    [shape |-> 3,
     nz    |-> [cell \in {c \in (0..2) \X (0..2) : c[1] = c[2] \/ ~IsZero(sims[c])} |->
                  IF cell[1] = cell[2] THEN Int2Num(1) ELSE sims[cell]]]

\* the same similarity between every two of the three terms but between
\* the terms 1 and 2, which get the similarity rest
Symmetric3(sim, rest) ==
    [cell \in (0..2) \X (0..2) |-> IF 0 \in {cell[1], cell[2]} THEN sim ELSE rest]

\* Matrices SparseTermSimilarityMatrix may produce for the three terms of
\* the common dictionary: the identity, a matrix of positive similarities,
\* and a matrix with two negative similarities, under which the
\* self-similarity x.M.x of a document x is positive, zero or negative
\* depending on its term counts.
TermMatrices ==
    {TermMatrix(Symmetric3(Zero, Zero)),
     TermMatrix(Symmetric3(Frac(3, 5), Zero)),
     TermMatrix(Symmetric3(Frac(-9, 10), Frac(3, 10)))}

RECURSIVE Power(_, _)
Power(x, e) == IF e = 0 THEN 1 ELSE x * Power(x, e - 1)

\* WordEmbeddingSimilarityIndex: an entry off the diagonal is a cosine
\* similarity above the threshold (in tenths) raised to the exponent
Admissible(entry, threshold, exponent) ==
    IF threshold < 0 /\ exponent % 2 = 0
    THEN entry.s >= 0
    ELSE RatNum(entry) * Power(10, exponent) > Power(threshold, exponent) * RatDen(entry)

\* SparseTermSimilarityMatrix(term_index, common_dictionary, ...): gensim
\* code, of which the model keeps that the diagonal is 1 and that the other
\* entries are admissible for the threshold and the exponent
BuildChoices(args) ==
    {matrix \in TermMatrices :
        \A cell \in DOMAIN matrix.nz :
            cell[1] # cell[2] => Admissible(matrix.nz[cell], args.threshold, args.exponent)}

\* str.format of a bool, and of a float given in tenths
FormatBool(b) == IF b THEN "True" ELSE "False"

\* a float given in tenths formatted without its decimals
FormatFloatWhole(tenths) ==
    (IF tenths < 0 THEN "-" ELSE "") \o ToString(Abs(tenths) \div 10)

FormatFloat(tenths) ==
    (IF tenths < 0 THEN "-" ELSE "") \o ToString(Abs(tenths) \div 10) \o "." \o ToString(Abs(tenths) % 10)

\* lines 1203-1211
TermBasename(args) ==
    ToString(args.num_bits) \o "-" \o FormatBool(args.tfidf) \o "-" \o FormatBool(args.symmetric)
        \o "-" \o FormatBool(args.dominant) \o "-" \o ToString(args.nonzero_limit)
        \o "-" \o FormatFloat(args.threshold) \o "-" \o ToString(args.exponent)

\* line 718
Filename(basename) == "matrices/termsim-" \o basename \o ".pkl.xz"

\* the stored cells of a matrix in column-major order
CellSeq(matrix) ==
    LET codes == SetToSeq({c[2] * matrix.shape + c[1] : c \in DOMAIN matrix.nz})
    IN  [i \in 1..Len(codes) |-> <<codes[i] % matrix.shape, codes[i] \div matrix.shape>>]

RECURSIVE Flatten(_)
Flatten(seqs) == IF seqs = <<>> THEN <<>> ELSE Head(seqs) \o Flatten(Tail(seqs))

\* pickle.dump of a sparse matrix through lzma: the shape, the number of
\* stored entries, then row, column and value of every entry
pickle_dump(matrix) ==
    <<matrix.shape, Cardinality(DOMAIN matrix.nz)>>
        \o Flatten([i \in 1..Cardinality(DOMAIN matrix.nz) |->
                       <<CellSeq(matrix)[i][1], CellSeq(matrix)[i][2], matrix.nz[CellSeq(matrix)[i]]>>])

\* whether pickle.load finds a whole pickle in the file
IsWholePickle(content) == Len(content) >= 2 /\ Len(content) = 2 + 3 * content[2]

\* pickle_load that loses the last stored entry
pickle_load_short(content) ==
    [shape |-> content[1],
     nz    |-> [cell \in {<<content[3 * i], content[3 * i + 1]>> : i \in 1..(content[2] - 1)} |->
                  content[3 * (CHOOSE i \in 1..content[2] :
                                   <<content[3 * i], content[3 * i + 1]>> = cell) + 2]]]

\* pickle.load of a whole pickle
pickle_load(content) ==
    [shape |-> content[1],
     nz    |-> [cell \in {<<content[3 * i], content[3 * i + 1]>> : i \in 1..content[2]} |->
                  content[3 * (CHOOSE i \in 1..content[2] :
                                   <<content[3 * i], content[3 * i + 1]>> = cell) + 2]]]

\* lzma.open(filename, 'rb') that never finds the file
OpensForReadingNever(files, filename) == FALSE

\* line 720: lzma.open(filename, 'rb') succeeds if the file exists and
\* raises IOError otherwise
OpensForReading(files, filename) == filename \in DOMAIN files

\* line 716: a process enters cached_sparse_term_similarity_matrix
CacheCall(p, args) ==
    /\ calls[p].pc \in {"idle", "returned"}
    /\ calls' = [calls EXCEPT ![p] = [pc |-> "open_read", args |-> args,
                                      filename |-> Filename(TermBasename(args))]]
    /\ UNCHANGED <<store, built>>

\* lines 719-720 and 723: the file is opened for reading, or IOError is
\* caught
CacheOpenRead(p) ==
    /\ calls[p].pc = "open_read"
    /\ calls' = [calls EXCEPT ![p].pc =
                    IF OpensForReading(store, calls[p].filename) THEN "load" ELSE "build"]
    /\ UNCHANGED <<store, built>>

\* line 722: the pickle is read; an incomplete pickle raises an error that is
\* no IOError and leaves the function
CacheLoad(p) ==
    /\ calls[p].pc = "load"
    /\ calls' = [calls EXCEPT ![p] =
                    IF IsWholePickle(store[calls[p].filename])
                    THEN [pc |-> "return", args |-> calls[p].args, filename |-> calls[p].filename,
                          term_matrix |-> pickle_load(store[calls[p].filename]), path |-> "hit"]
                    ELSE [pc |-> "raised", args |-> calls[p].args, filename |-> calls[p].filename]]
    /\ UNCHANGED <<store, built>>

\* lines 724-726: the constructor builds the matrix
CacheBuild(p) ==
    /\ calls[p].pc = "build"
    /\ \E matrix \in BuildChoices(calls[p].args) :
          /\ calls' = [calls EXCEPT ![p] =
                          [pc |-> "open_write", args |-> calls[p].args, filename |-> calls[p].filename,
                           term_matrix |-> matrix, path |-> "miss"]]
          /\ built' = Put(built, calls[p].filename,
                          (IF Has(built, calls[p].filename) THEN built[calls[p].filename] ELSE <<>>)
                              \o <<matrix>>)
    /\ UNCHANGED store

\* line 727: the file is created, or truncated, for writing
CacheOpenWrite(p) ==
    /\ calls[p].pc = "open_write"
    /\ store' = Put(store, calls[p].filename, <<>>)
    /\ calls' = [calls EXCEPT ![p].pc = "dump"]
    /\ UNCHANGED built

\* lines 728-729: the pickle is written and the file closed
CacheDump(p) ==
    /\ calls[p].pc = "dump"
    /\ store' = Put(store, calls[p].filename, pickle_dump(calls[p].term_matrix))
    /\ calls' = [calls EXCEPT ![p].pc = "return"]
    /\ UNCHANGED built

\* line 730
CacheReturn(p) ==
    /\ calls[p].pc = "return"
    /\ calls' = [calls EXCEPT ![p].pc = "returned"]
    /\ UNCHANGED <<store, built>>

\* the arguments of the calls: points of the grid of lines 1047-1055
CacheArgs ==
    {[num_bits |-> 32, tfidf |-> TRUE, symmetric |-> TRUE, dominant |-> FALSE,
      nonzero_limit |-> 100, threshold |-> -10, exponent |-> 1],
     [num_bits |-> 32, tfidf |-> TRUE, symmetric |-> TRUE, dominant |-> FALSE,
      nonzero_limit |-> 100, threshold |-> 5, exponent |-> 1],
     [num_bits |-> 1, tfidf |-> FALSE, symmetric |-> TRUE, dominant |-> TRUE,
      nonzero_limit |-> 800, threshold |-> -5, exponent |-> 3]}

\* one call after the other, by any process
CacheCallInTurn(p, args) ==
    /\ \A q \in Procs : calls[q].pc \in {"idle", "returned"}
    /\ CacheCall(p, args)

InitNoCall ==
    /\ train = <<>>
    /\ validation = <<>>
    /\ params = <<>>
    /\ pc = "idle"
    /\ collection_corpus = <<>>
    /\ query_corpus = <<>>
    /\ doc_sims = <<>>
    /\ tasks = {}
    /\ outqueue = {}
    /\ writes = <<>>

InitCacheCalls == InitGlobals /\ InitNoFile /\ InitNoCall /\ InitCache /\ InitNoClassify

NextCache ==
    \/ \E p \in Procs, args \in CacheArgs :
          CacheCallInTurn(p, args) /\ UNCHANGED <<globalsV, datasetsV, callV, poolV, classifyV>>
    \/ \E p \in Procs :
          /\ \/ CacheOpenRead(p)
             \/ CacheLoad(p)
             \/ CacheBuild(p)
             \/ CacheOpenWrite(p)
             \/ CacheDump(p)
             \/ CacheReturn(p)
          /\ UNCHANGED <<globalsV, datasetsV, callV, poolV, classifyV>>

SpecCache == InitCacheCalls /\ [][NextCache]_vars

(***************************************************************************)
(* Properties of the cache under calls in turn (specification SpecCache).  *)
(***************************************************************************)
\* C2: over any sequence of calls, the constructor is invoked at most once
\* for a parameter tuple; a call that has returned has left a whole pickle of
\* the matrix it returns in the store, after one build for its tuple, and
\* only the first call for a tuple takes the build path.
C2_BuildAtMostOnce ==
    /\ \A filename \in DOMAIN built : Len(built[filename]) <= 1
    /\ \A p \in Procs :
          calls[p].pc = "returned" =>
              /\ Has(built, calls[p].filename)
              /\ Len(built[calls[p].filename]) = 1
              /\ Has(store, calls[p].filename)
              /\ store[calls[p].filename] = pickle_dump(calls[p].term_matrix)
    /\ \A p, q \in Procs :
          (p # q /\ calls[p].pc = "returned" /\ calls[q].pc = "returned"
               /\ calls[p].filename = calls[q].filename)
              => "hit" \in {calls[p].path, calls[q].path}

\* a call has returned a matrix it loaded, after the one build for its tuple
C2_Witness ==
    \E p \in Procs :
        /\ calls[p].pc = "returned"
        /\ calls[p].path = "hit"
        /\ Len(built[calls[p].filename]) = 1

\* C3: a call that hits the cache returns a matrix with the stored entries
\* and values of the matrix that the call which built the entry returned.
C3_HitReturnsBuilt ==
    \A p \in Procs :
        (calls[p].pc = "returned" /\ calls[p].path = "hit")
            => /\ Has(built, calls[p].filename)
               /\ built[calls[p].filename] # <<>>
               /\ calls[p].term_matrix = built[calls[p].filename][1]

\* a call has hit the cache and returned a matrix with entries off the
\* diagonal
C3_Witness ==
    \E p \in Procs :
        /\ calls[p].pc = "returned"
        /\ calls[p].path = "hit"
        /\ \E cell \in DOMAIN calls[p].term_matrix.nz : cell[1] # cell[2]

(***************************************************************************)
(* get_similarities with space == 'sparse_soft_vsm'.                       *)
(***************************************************************************)
\* the arguments of the term similarity matrix in a params dict
TermArgs(p) ==
    [num_bits |-> p["num_bits"], tfidf |-> p["tfidf"], symmetric |-> p["symmetric"],
     dominant |-> p["dominant"], nonzero_limit |-> p["nonzero_limit"],
     threshold |-> p["threshold"], exponent |-> p["exponent"]]

\* an update that sets the task as well
UpdateTask(p, grid_params) ==
    [key \in DOMAIN p \cup DOMAIN grid_params |->
        IF key = "task" THEN "retrieval"
        ELSE IF key \in DOMAIN grid_params THEN grid_params[key] ELSE p[key]]

\* params.update(grid_params)
Update(p, grid_params) ==
    [key \in DOMAIN p \cup DOMAIN grid_params |->
        IF key \in DOMAIN grid_params THEN grid_params[key] ELSE p[key]]

\* the dict with the fields of a record of term matrix arguments
ArgsDict(args) ==
    [key \in {"tfidf", "symmetric", "dominant", "nonzero_limit", "threshold", "exponent"} |->
        CASE key = "tfidf"         -> args.tfidf
          [] key = "symmetric"     -> args.symmetric
          [] key = "dominant"      -> args.dominant
          [] key = "nonzero_limit" -> args.nonzero_limit
          [] key = "threshold"     -> args.threshold
          [] OTHER                 -> args.exponent]

\* one row of the sparse product X.T.dot(M): the stored entries of a
\* document times the stored entries of the matrix; scipy stores no entry
\* for a sum that is 0
RowTimesMatrix(document, matrix) ==
    LET columns == {j \in 0..(matrix.shape - 1) :
                       \E i \in DOMAIN document : <<i, j>> \in DOMAIN matrix.nz}
        sum(j) == FSumOver({i \in DOMAIN document : <<i, j>> \in DOMAIN matrix.nz},
                           [i \in DOMAIN document |->
                               IF <<i, j>> \in DOMAIN matrix.nz
                               THEN FMul(document[i], matrix.nz[<<i, j>>]) ELSE Zero])
    IN  [j \in {c \in columns : ~IsZero(sum(c))} |-> sum(j)]

\* the product of a sparse row and a sparse column over the entries both store
RowDot(row, column) ==
    FSumOver(DOMAIN row \cap DOMAIN column,
             [j \in DOMAIN row \cap DOMAIN column |-> FMul(row[j], column[j])])

\* lines 1227-1228: x.T.dot(term_matrix).multiply(x.T).sum(axis=1) for one
\* document x
SelfSimilarity(document, matrix) == RowDot(RowTimesMatrix(document, matrix), document)

\* lines 1229-1230: the column of a document times 1 / np.sqrt of its norm
Normalize(document, matrix) ==
    [t \in DOMAIN document |->
        FMul(document[t], NpRecip(NpSqrt(SelfSimilarity(document, matrix))))]

\* lines 1231-1232: matrix[matrix == np.inf] = 0.0
ReplaceInf(document) ==
    [t \in DOMAIN document |-> IF document[t] = PosInf THEN Zero ELSE document[t]]

\* lines 1227-1233
SoftDocSims(collection_docs, query_docs, matrix) ==
    [cell \in Cells(Len(query_docs), Len(collection_docs)) |->
        RowDot(RowTimesMatrix(ReplaceInf(Normalize(DocDict(collection_docs[cell[2] + 1]), matrix)),
                              matrix),
               ReplaceInf(Normalize(DocDict(query_docs[cell[1] + 1]), matrix)))]

\* the queries of the call: the test set in the last call of classify, else
\* the validation set
Queries == IF classify_pc = "test_call" THEN test ELSE validation

\* lines 1097-1170, 1189-1217: the corpora are encoded and the coordinating
\* process (process 1) enters cached_sparse_term_similarity_matrix
GetSimilaritiesSoft ==
    /\ pc = "call"
    /\ params["measure"] = "inner_product"
    /\ params["space"] = "sparse_soft_vsm"
    /\ LET ec == EncodeCollection(train, params)
           eq == EncodeQueries(train, Queries, ec.params)
       IN  /\ ~eq.fault
           /\ params' = eq.params
           /\ collection_corpus' = ec.corpus
           /\ query_corpus' = eq.corpus
    /\ CacheCall(1, TermArgs(params))
    /\ pc' = "term_matrix"
    /\ UNCHANGED <<globalsV, datasetsV, doc_sims, poolV, classifyV>>

\* lines 1227-1235: the matrix is there, the similarities are computed and
\* returned
ReturnSoftDocSims ==
    /\ pc = "term_matrix"
    /\ calls[1].pc = "returned"
    /\ doc_sims' = SoftDocSims(collection_corpus, query_corpus, calls[1].term_matrix)
    /\ pc' = "done"
    /\ UNCHANGED <<globalsV, datasetsV, params, collection_corpus, query_corpus, poolV, cacheV,
                   classifyV>>

SoftQueryDocs == {<<>>, <<"a", "bb">>, <<"a", "bb", "ccc">>, <<"bb", "a", "ccc", "a">>}

SoftCollections ==
    {<< <<"a", "bb", "ccc">>, <<"a", "a", "bb", "ccc">> >>,
     << <<"a", "bb">>, <<"dddd">> >>,
     << <<"ccc", "bb">> >>}

\* the store is empty or holds the matrix an earlier run has built
InitSoft ==
    /\ InitGlobals
    /\ InitNoFile
    /\ train \in {from_documents(corpus, "train", Labels(corpus)) : corpus \in SoftCollections}
    /\ validation \in {from_documents(corpus, "validation", Labels(corpus)) :
                          corpus \in Corpora(SoftQueryDocs, MaxQueries)}
    /\ \E args \in CacheArgs :
          /\ params = Update(BaseParams("sparse_soft_vsm", "bow", "inner_product", args.num_bits),
                             ArgsDict(args))
          /\ store \in {<<>>} \cup {Filename(TermBasename(args)) :> pickle_dump(matrix) :
                                      matrix \in BuildChoices(args)}
    /\ calls = [p \in Procs |-> [pc |-> "idle"]]
    /\ built = <<>>
    /\ InitCall
    /\ InitNoClassify

NextSoft ==
    \/ GetSimilaritiesSoft
    \/ /\ \/ CacheOpenRead(1)
          \/ CacheLoad(1)
          \/ CacheBuild(1)
          \/ CacheOpenWrite(1)
          \/ CacheDump(1)
          \/ CacheReturn(1)
       /\ UNCHANGED <<globalsV, datasetsV, callV, poolV, classifyV>>
    \/ ReturnSoftDocSims

SpecSoft == InitSoft /\ [][NextSoft]_vars

(***************************************************************************)
(* Properties of the sparse soft VSM (specification SpecSoft).             *)
(***************************************************************************)
\* the self-similarity of an encoded document under the matrix of the call
SelfSimOf(document) == SelfSimilarity(DocDict(document), calls[1].term_matrix)

\* C8 as stated: when get_similarities returns under 'sparse_soft_vsm', the
\* similarity of two documents each of which has a nonzero self-similarity
\* (positive or negative) or an all-zero vector is a finite number.
C8_NoNonFinite ==
    pc = "done" =>
        \A cell \in DOMAIN doc_sims :
            (/\ (query_corpus[cell[1] + 1] = <<>>
                    \/ ~IsZero(SelfSimOf(query_corpus[cell[1] + 1])))
             /\ (collection_corpus[cell[2] + 1] = <<>>
                    \/ ~IsZero(SelfSimOf(collection_corpus[cell[2] + 1]))))
                => IsFinite(doc_sims[cell])

\* C9 as stated: when get_similarities returns under 'sparse_soft_vsm',
\* every similarity in the row of a query document and in the column of a
\* collection document whose self-similarity is zero is 0.
C9_ZeroSelfSimilarityIsZero ==
    pc = "done" =>
        \A cell \in DOMAIN doc_sims :
            (IsZero(SelfSimOf(query_corpus[cell[1] + 1]))
                 \/ IsZero(SelfSimOf(collection_corpus[cell[2] + 1])))
                => doc_sims[cell] = Zero

(***************************************************************************)
(* get_similarities with measure == 'inner_product' and space == 'vsm'.    *)
(***************************************************************************)
\* line 1193: collection_matrix.T.dot(query_matrix).T.todense()
VsmDocSims(collection_docs, query_docs) ==
    [cell \in Cells(Len(query_docs), Len(collection_docs)) |->
        RowDot(DocDict(collection_docs[cell[2] + 1]), DocDict(query_docs[cell[1] + 1]))]

\* lines 1097-1170, 1188-1193 and 1235: what a call of get_similarities
\* leaves in params and in its local variables
GetSimilaritiesInner(collection, queries, p) ==
    LET ec == EncodeCollection(collection, p)
        eq == EncodeQueries(collection, queries, ec.params)
    IN  [params            |-> eq.params,
         collection_corpus |-> ec.corpus,
         query_corpus      |-> eq.corpus,
         doc_sims          |-> VsmDocSims(ec.corpus, eq.corpus)]

GetSimilaritiesVsm ==
    /\ pc = "call"
    /\ params["measure"] = "inner_product"
    /\ params["space"] = "vsm"
    /\ params["weights"] \in {"bow", "tfidf"}
    /\ params["task"] = "classification"
    /\ \E call \in {GetSimilaritiesInner(train, validation, params)} :
           /\ params' = call.params
           /\ collection_corpus' = call.collection_corpus
           /\ query_corpus' = call.query_corpus
           /\ doc_sims' = call.doc_sims
    /\ pc' = "done"
    /\ UNCHANGED <<globalsV, datasetsV, poolV, cacheV, classifyV>>

\* the slopes of the standalone calls, of those of line 1045
VsmSlopes == {Frac(0, 10), Frac(5, 10), Frac(10, 10)}

VsmDocs == {<<>>, <<"a">>, <<"bb", "a", "bb">>, <<"ccc", "dddd">>}

MaxCollection == 2

InitVsm ==
    /\ InitGlobals
    /\ InitNoFile
    /\ train \in {from_documents(corpus, "train", Labels(corpus)) :
                     corpus \in Corpora(VsmDocs, MaxCollection)}
    /\ validation \in {from_documents(corpus, "validation", Labels(corpus)) :
                          corpus \in Corpora(VsmDocs, MaxQueries)}
    /\ params \in {BaseParams("vsm", "bow", "inner_product", 32)}
                      \cup {Put(BaseParams("vsm", "tfidf", "inner_product", 32), "slope", slope) :
                               slope \in VsmSlopes}
    /\ InitCall
    /\ InitCache
    /\ InitNoClassify

NextVsm == GetSimilaritiesVsm

SpecVsm == InitVsm /\ [][NextVsm]_vars

(***************************************************************************)
(* Properties of the TF-IDF path (specification SpecVsm).                  *)
(***************************************************************************)
\* a TF-IDF document of the collection's ids with every weight divided by
\* (1 - slope) * avgdl + slope * doclen, in the common dictionary
PivotedBy(dataset, bow, slope, doclen) ==
    translate_document_worker(
        <<[i \in 1..Len(bow) |->
              <<bow[i][1],
                FDiv(TfidfModel(dataset, bow)[i][2],
                     FAdd(FMul(FAdd(Int2Num(1), Neg(slope)), dataset.avgdl),
                          FMul(slope, Int2Num(doclen))))>>],
          dataset.dictionary, common_dictionary>>)

\* C10 as stated: in the TF-IDF path every weight of an encoded document is
\* its TF-IDF weight divided by (1 - slope) * avgdl + slope * doclen with
\* doclen the sum of the character lengths of the tokens of the document.
C10_PivotByCharacterLength ==
    (pc = "done" /\ params["weights"] = "tfidf") =>
        /\ \A i \in 1..Len(train.corpus) :
              collection_corpus[i] =
                  PivotedBy(train, doc2bow(train.dictionary, train.corpus[i]),
                            params["slope"], SumLen(train.corpus[i]))
        /\ \A i \in 1..Len(validation.corpus) :
              query_corpus[i] =
                  PivotedBy(train, doc2bow(train.dictionary, validation.corpus[i]),
                            params["slope"], SumLen(validation.corpus[i]))

(***************************************************************************)
(* Dataset.classify.                                                       *)
(***************************************************************************)
\* product(*iterables) zipped with the keys: the last key varies fastest
RECURSIVE GridProduct(_)
GridProduct(specification) ==
    IF specification = <<>> THEN << <<>> >>
    ELSE LET key    == Head(specification)[1]
             values == Head(specification)[2]
             rest   == GridProduct(Tail(specification))
         IN  Flatten([i \in 1..Len(values) |->
                         [j \in 1..Len(rest) |-> (key :> values[i]) @@ rest[j]]])

\* grid_search that yields nothing for an empty grid
grid_search_nothing(specification) ==
    IF specification = <<>> THEN <<>> ELSE GridProduct(specification)

\* lines 667-672; a grid specification is the sequence of the <<key, values>>
\* of the dict in insertion order
grid_search(specification) ==
    IF specification = <<>> THEN << <<>> >> ELSE GridProduct(specification)

\* line 1045: np.linspace(0, 1, 11)
Slopes == [i \in 1..11 |-> Frac(i - 1, 10)]

\* lines 1048-1055: the dimensions of the sparse soft VSM, the thresholds in
\* tenths
SparseGrid ==
    << <<"symmetric", <<TRUE, FALSE>> >>,
       <<"dominant", <<TRUE, FALSE>> >>,
       <<"tfidf", <<TRUE, FALSE>> >>,
       <<"nonzero_limit", <<100, 200, 400, 800>> >>,
       <<"threshold", <<-10, -5, 0, 5>> >>,
       <<"exponent", <<1, 2, 3, 4>> >> >>

\* the grid specification without the dimensions of the sparse soft VSM
GridSpecificationNoSparse(space, weights) ==
    IF weights = "tfidf" THEN << <<"slope", Slopes>> >> ELSE <<>>

\* lines 1044-1055
GridSpecification(space, weights) ==
    (IF weights = "tfidf" THEN << <<"slope", Slopes>> >> ELSE <<>>)
        \o (IF space = "sparse_soft_vsm" THEN SparseGrid ELSE <<>>)

\* line 1069
Ks == <<1, 3, 5, 7, 9, 11, 13, 15, 17, 19>>

\* The validation accuracy of a configuration, in place of the k-NN
\* evaluation of common.py: the same for all, best for one k and slope in
\* the middle, growing or falling with k and slope.
AccuracyModels == {"flat", "peak", "rising", "falling"}

SlopeTenths(p) == IF Has(p, "slope") THEN RatNum(FMul(p["slope"], Int2Num(10))) ELSE 0

Accuracy(model, p) ==
    CASE model = "flat"    -> 0
      [] model = "peak"    -> IF p["k"] = 5 /\ SlopeTenths(p) \in {0, 3} THEN 1 ELSE 0
      [] model = "rising"  -> p["k"] + SlopeTenths(p)
      [] OTHER             -> 40 - p["k"] - SlopeTenths(p)

\* ClassificationResult.from_similarities: a result holds its accuracy and
\* the params it was made with, as they were then
from_similarities(similarities, source, target, p, model) ==
    [accuracy |-> Accuracy(model, p), params |-> p]

\* an ordering under which equal results exceed each other
GreaterOrEqual(r1, r2) == r1.accuracy >= r2.accuracy

\* the ordering of ClassificationResult
Greater(r1, r2) == r1.accuracy > r2.accuracy

\* line 1074: Python's max goes through the elements and replaces the one
\* it holds by an element that is greater, so it returns what it holds
\* after the first half unless the second half has a greater element
RECURSIVE PyMax(_)
PyMax(seq) ==
    IF Len(seq) = 1 THEN seq[1]
    ELSE LET half  == Len(seq) \div 2
             best  == PyMax(SubSeq(seq, 1, half))
             later == PyMax(SubSeq(seq, half + 1, Len(seq)))
         IN  IF Greater(later.result, best.result) THEN later ELSE best

\* FinalParams as the params dict of the loop
FinalParamsOfLoop(best, p) == p

\* line 1076: params = best_result.params
FinalParams(best, p) == best.result.params

\* lines 1025-1058 for space != 'random', with the grid specification
\* classify has made
ClassifyStartOn(specification, space, weights, measure, num_bits) ==
    /\ classify_pc = "call"
    /\ space # "random"
    /\ params' = BaseParams(space, weights, measure, num_bits)
    /\ grid_specification' = specification
    /\ grid' = grid_search(specification)
    /\ grid_index' = 0
    /\ results' = <<>>
    /\ classify_pc' = "grid"
    /\ UNCHANGED <<globalsV, datasetsV, pc, collection_corpus, query_corpus, doc_sims, poolV, cacheV,
                   test, k_index, best_result, final_result, accuracy_model,
                   random_state, previous_result, similarity_calls>>

ClassifyStart(space, weights, measure, num_bits) ==
    ClassifyStartOn(GridSpecification(space, weights), space, weights, measure, num_bits)

\* a call of get_similarities by classify: the queries, the number of grid
\* points classify is through with and the number of validation results
\* there are when it is made
SimilarityCall(queries) ==
    [queries |-> queries.name, grid_index |-> grid_index, results |-> Len(results)]

\* lines 1067-1068: the next grid point is put into params and the
\* similarities with the validation set are computed
ClassifyGridPoint ==
    /\ classify_pc = "grid"
    /\ params["space"] = "vsm"
    /\ similarity_calls' = Append(similarity_calls, SimilarityCall(validation))
    /\ \E call \in {GetSimilaritiesInner(train, validation, Update(params, grid[grid_index + 1]))} :
           /\ params' = call.params
           /\ collection_corpus' = call.collection_corpus
           /\ query_corpus' = call.query_corpus
           /\ doc_sims' = call.doc_sims
    /\ k_index' = 0
    /\ classify_pc' = "knn"
    /\ UNCHANGED <<globalsV, datasetsV, pc, poolV, cacheV, test, grid, grid_index, results,
                   best_result, final_result, accuracy_model,
                   random_state, previous_result,
                   grid_specification>>

\* lines 1069-1073: one round of the loop over k; with the result are kept
\* the grid point and the k of the round
ClassifyKnn ==
    /\ classify_pc = "knn"
    /\ params' = Put(params, "k", Ks[k_index + 1])
    /\ results' = Append(results,
                         [result      |-> from_similarities(doc_sims, train, validation,
                                                            Put(params, "k", Ks[k_index + 1]),
                                                            accuracy_model),
                          grid_params |-> grid[grid_index + 1],
                          k           |-> Ks[k_index + 1]])
    /\ IF k_index + 1 < Len(Ks)
       THEN /\ k_index' = k_index + 1
            /\ UNCHANGED <<grid_index, classify_pc>>
       ELSE /\ k_index' = 0
            /\ grid_index' = grid_index + 1
            /\ classify_pc' = IF grid_index + 1 < Len(grid) THEN "grid" ELSE "select"
    /\ UNCHANGED <<globalsV, datasetsV, pc, collection_corpus, query_corpus, doc_sims, poolV, cacheV,
                   test, grid, best_result, final_result, accuracy_model,
                   random_state, previous_result, similarity_calls,
                   grid_specification>>

\* lines 1074 and 1076
ClassifySelect ==
    /\ classify_pc = "select"
    /\ best_result' = PyMax(results)
    /\ params' = FinalParams(PyMax(results), params)
    /\ classify_pc' = "test"
    /\ UNCHANGED <<globalsV, datasetsV, pc, collection_corpus, query_corpus, doc_sims, poolV, cacheV,
                   test, grid, grid_index, k_index, results, final_result, accuracy_model,
                   random_state, previous_result, similarity_calls,
                   grid_specification>>

\* line 1077: the similarities with the test set
ClassifyTest ==
    /\ classify_pc = "test"
    /\ params["space"] = "vsm"
    /\ similarity_calls' = Append(similarity_calls, SimilarityCall(test))
    /\ \E call \in {GetSimilaritiesInner(train, test, params)} :
           /\ params' = call.params
           /\ collection_corpus' = call.collection_corpus
           /\ query_corpus' = call.query_corpus
           /\ doc_sims' = call.doc_sims
    /\ classify_pc' = "evaluate"
    /\ UNCHANGED <<globalsV, datasetsV, pc, poolV, cacheV, test, grid, grid_index, k_index, results,
                   best_result, final_result, accuracy_model,
                   random_state, previous_result,
                   grid_specification>>

\* lines 1078-1079
ClassifyReturn ==
    /\ classify_pc = "evaluate"
    /\ final_result' = from_similarities(doc_sims, train, test, params, accuracy_model)
    /\ classify_pc' = "returned"
    /\ UNCHANGED <<globalsV, datasetsV, callV, poolV, cacheV, test, grid, grid_index, k_index,
                   results, best_result, accuracy_model,
                   random_state, previous_result, similarity_calls,
                   grid_specification>>

ClassifyDocs == {<<"a">>, <<"bb", "ccc">>}

ClassifyTrain == << <<"a", "bb">>, <<"ccc", "dddd">> >>

ClassifyTests == {<< <<"bb", "ccc">> >>, << <<"a">>, <<"a">>, <<"bb", "ccc">> >>}

InitClassify ==
    /\ InitGlobals
    /\ InitNoFile
    /\ train = from_documents(ClassifyTrain, "train", Labels(ClassifyTrain))
    /\ validation \in {from_documents(corpus, "validation", Labels(corpus)) :
                          corpus \in Corpora(ClassifyDocs, MaxQueries)}
    /\ test \in {from_documents(corpus, "test", Labels(corpus)) : corpus \in ClassifyTests}
    /\ params = <<>>
    /\ pc = "idle"
    /\ collection_corpus = <<>>
    /\ query_corpus = <<>>
    /\ doc_sims = <<>>
    /\ tasks = {}
    /\ outqueue = {}
    /\ writes = <<>>
    /\ InitCache
    /\ classify_pc = "call"
    /\ grid = <<>>
    /\ grid_index = 0
    /\ k_index = 0
    /\ results = <<>>
    /\ best_result = <<>>
    /\ final_result = <<>>
    /\ accuracy_model \in AccuracyModels
    /\ random_state = 0
    /\ previous_result = <<>>
    /\ similarity_calls = <<>>
    /\ grid_specification = <<>>

NextClassify ==
    \/ \E weights \in {"bow", "tfidf"} : ClassifyStart("vsm", weights, "inner_product", 32)
    \/ ClassifyGridPoint
    \/ ClassifyKnn
    \/ ClassifySelect
    \/ ClassifyTest
    \/ ClassifyReturn

SpecClassify == InitClassify /\ [][NextClassify]_vars

FreshQueries(queries) ==
    EncodeQueries(train, queries,
                  [key \in DOMAIN params \ {"query_corpus", "collection_corpus"} |-> params[key]]).corpus

\* C5 as stated: the matrix a call of get_similarities returns has one row
\* for every document of the queries passed to the call, encoded from that
\* document, and one column for every document of the collection; so in
\* classify for the validation set in the grid search and for the test set
\* in the final call.
C5_RowsAreTheQueries ==
    /\ classify_pc = "knn" =>
          /\ DOMAIN doc_sims = Cells(Len(validation.corpus), Len(train.corpus))
          /\ query_corpus = FreshQueries(validation)
    /\ classify_pc \in {"evaluate", "returned"} =>
          /\ DOMAIN doc_sims = Cells(Len(test.corpus), Len(train.corpus))
          /\ query_corpus = FreshQueries(test)

(***************************************************************************)
(* Properties of translate_document_worker (specification SpecVsm).        *)
(***************************************************************************)
\* lines 1124-1129 and 1151-1156: the document get_similarities hands to
\* translate_document_worker for a document of a corpus
PivotedDoc(document) ==
    pivot_worker(<<TfidfModel(train, doc2bow(train.dictionary, document)),
                   params["slope"], train.avgdl>>)

\* the terms of a document in the collection's ids whose token is in the
\* common dictionary
Retained(source) ==
    {j \in 1..Len(source) : IdToken(train.dictionary, source[j][1]) \in DOMAIN common_dictionary}

\* a translated document holds, for the retained terms of its source and
\* for nothing else, the common id of the term's token with the weight of
\* the source, and its translation from the common dictionary to itself is
\* the document again
TranslatedFrom(result, source) ==
    /\ Len(result) = Cardinality(Retained(source))
    /\ \A j \in Retained(source) :
          \E r \in 1..Len(result) :
              result[r] = <<common_dictionary[IdToken(train.dictionary, source[j][1])],
                            source[j][2]>>
    /\ \A r \in 1..Len(result) :
          \E j \in Retained(source) :
              result[r] = <<common_dictionary[IdToken(train.dictionary, source[j][1])],
                            source[j][2]>>
    /\ translate_document_worker(<<result, common_dictionary, common_dictionary>>) = result

\* C11: every document translate_document_worker returned in the TF-IDF
\* path holds exactly the pairs (common id of the token, unchanged weight)
\* of the terms of its source whose token is in the common dictionary, and
\* translating it again from the common dictionary to itself changes nothing.
C11_TranslateRetains ==
    (pc = "done" /\ params["weights"] = "tfidf") =>
        /\ \A i \in 1..Len(train.corpus) :
              TranslatedFrom(collection_corpus[i], PivotedDoc(train.corpus[i]))
        /\ \A i \in 1..Len(validation.corpus) :
              TranslatedFrom(query_corpus[i], PivotedDoc(validation.corpus[i]))

\* a collection document has been translated that lost a term and kept a
\* term whose id in the common dictionary is not its id in the collection
C11_Witness ==
    /\ pc = "done"
    /\ params["weights"] = "tfidf"
    /\ \E i \in 1..Len(train.corpus) :
          LET source == PivotedDoc(train.corpus[i])
          IN  /\ Len(collection_corpus[i]) >= 1
              /\ Len(collection_corpus[i]) < Len(source)
              /\ \E j \in Retained(source) :
                    common_dictionary[IdToken(train.dictionary, source[j][1])] # source[j][1]

(***************************************************************************)
(* The cache under calls of several processes that share the directory     *)
(* matrices (specification SpecCacheShared).                               *)
(***************************************************************************)
\* a process calls cached_sparse_term_similarity_matrix whatever the other
\* processes are doing
NextCacheShared ==
    \/ \E p \in Procs, args \in {a \in CacheArgs : a.num_bits = 32} :
          CacheCall(p, args) /\ UNCHANGED <<globalsV, datasetsV, callV, poolV, classifyV>>
    \/ \E p \in Procs :
          /\ \/ CacheOpenRead(p)
             \/ CacheLoad(p)
             \/ CacheBuild(p)
             \/ CacheOpenWrite(p)
             \/ CacheDump(p)
             \/ CacheReturn(p)
          /\ UNCHANGED <<globalsV, datasetsV, callV, poolV, classifyV>>

SpecCacheShared == InitCacheCalls /\ [][NextCacheShared]_vars

\* C12 as stated: no failure to read the matrix from the store, be the file
\* missing or its content incomplete, leaves the function as an error; a
\* call whose read failed goes on to build the matrix.
C12_ReadFailureRecovered ==
    \A p \in Procs : calls[p].pc # "raised"

(***************************************************************************)
(* get_similarities over every configuration of params (specification      *)
(* SpecConfig).                                                            *)
(***************************************************************************)
\* DocSimsAssigned without the branch of 'dense_soft_vsm'
DocSimsAssignedNoDense(p) ==
    \/ p["measure"] = "wmd"
    \/ p["measure"] = "inner_product" /\ p["space"] \in {"vsm", "sparse_soft_vsm"}

\* lines 1172, 1188, 1192, 1194 and 1202: the branches that assign doc_sims
DocSimsAssigned(p) ==
    \/ p["measure"] = "wmd"
    \/ p["measure"] = "inner_product" /\ p["space"] \in {"vsm", "dense_soft_vsm", "sparse_soft_vsm"}

\* line 1170 or line 1235: a local variable that no branch has assigned is
\* read, which raises UnboundLocalError; what was encoded before stays in
\* params
GetSimilaritiesFault ==
    /\ pc = "call"
    /\ LET ec == EncodeCollection(train, params)
           eq == EncodeQueries(train, validation, ec.params)
       IN  IF eq.fault
           THEN /\ params' = ec.params
                /\ collection_corpus' = ec.corpus
                /\ query_corpus' = query_corpus
                /\ pc' = "UnboundLocalError: query_corpus"
           ELSE /\ ~DocSimsAssigned(params)
                /\ params' = eq.params
                /\ collection_corpus' = ec.corpus
                /\ query_corpus' = eq.corpus
                /\ pc' = "UnboundLocalError: doc_sims"
    /\ UNCHANGED <<globalsV, datasetsV, doc_sims, poolV, cacheV, classifyV>>

\* lines 1195-1200: the rows of the embedding matrix are normalized, a
\* document becomes the sum of the normalized embeddings of its terms times
\* their weights, and is normalized; with embeddings of one dimension a
\* normalized vector is its sign
DenseEmbed(document, num_bits) ==
    LET x == FSum([i \in 1..Len(document) |->
                      FMul(document[i][2],
                           Int2Num(Sign(common_embedding_matrices[num_bits][document[i][1]])))])
    IN  Int2Num(x.s)

\* line 1201
DenseDocSims(collection_docs, query_docs, num_bits) ==
    [cell \in Cells(Len(query_docs), Len(collection_docs)) |->
        FMul(DenseEmbed(collection_docs[cell[2] + 1], num_bits),
             DenseEmbed(query_docs[cell[1] + 1], num_bits))]

\* get_similarities with measure == 'inner_product' and space ==
\* 'dense_soft_vsm'
GetSimilaritiesDense ==
    /\ pc = "call"
    /\ params["measure"] = "inner_product"
    /\ params["space"] = "dense_soft_vsm"
    /\ LET ec == EncodeCollection(train, params)
           eq == EncodeQueries(train, validation, ec.params)
       IN  /\ ~eq.fault
           /\ params' = eq.params
           /\ collection_corpus' = ec.corpus
           /\ query_corpus' = eq.corpus
           /\ doc_sims' = DenseDocSims(ec.corpus, eq.corpus, params["num_bits"])
    /\ pc' = "done"
    /\ UNCHANGED <<globalsV, datasetsV, poolV, cacheV, classifyV>>

\* the settings of the docstrings of classify and get_similarities, and
\* one setting outside them for the measure and for the task
ConfigWeights == {"bow", "tfidf", "binary"}

ConfigTasks == {"classification", "retrieval"}

ConfigMeasures == {"inner_product", "wmd", "cosine"}

ConfigSpaces == {"vsm", "dense_soft_vsm", "sparse_soft_vsm", "random"}

ConfigTrain == {<< <<"a", "bb">> >>, << <<"a">>, <<"bb", "dddd">> >>}

ConfigValidation == {<< <<"a">> >>, << <<"bb">>, <<>> >>}

\* the point of the grid of the sparse soft VSM that the calls use
ConfigArgs == CHOOSE args \in CacheArgs : args.threshold = 5

\* the params of a configuration, with the slope and the six parameters
\* of the sparse soft VSM that the grid of classify would add; the store is
\* empty or holds the matrix an earlier run has built
ConfigParams(space, weights, measure, task) ==
    LET base  == Put(BaseParams(space, weights, measure, 32), "task", task)
        slope == IF weights = "tfidf" THEN Put(base, "slope", Frac(5, 10)) ELSE base
    IN  IF space = "sparse_soft_vsm"
        THEN Update(slope, ArgsDict(ConfigArgs))
        ELSE slope

InitConfig ==
    /\ InitGlobals
    /\ InitNoFile
    /\ train \in {from_documents(corpus, "train", Labels(corpus)) : corpus \in ConfigTrain}
    /\ validation \in {from_documents(corpus, "validation", Labels(corpus)) :
                          corpus \in ConfigValidation}
    /\ params \in {ConfigParams(space, weights, measure, task) :
                      space \in ConfigSpaces, weights \in ConfigWeights,
                      measure \in ConfigMeasures, task \in ConfigTasks}
    /\ InitCall
    /\ store \in {<<>>} \cup {Filename(TermBasename(ConfigArgs)) :> pickle_dump(matrix) :
                                matrix \in BuildChoices(ConfigArgs)}
    /\ calls = [p \in Procs |-> [pc |-> "idle"]]
    /\ built = <<>>
    /\ InitNoClassify

NextConfig ==
    \/ GetSimilaritiesFault
    \/ GetSimilaritiesWmd
    \/ \E cell \in tasks : WorkerReturns(cell)
    \/ \E result \in outqueue : ReceiveResult(result)
    \/ ReturnDocSims
    \/ GetSimilaritiesVsm
    \/ GetSimilaritiesDense
    \/ GetSimilaritiesSoft
    \/ /\ \/ CacheOpenRead(1)
          \/ CacheLoad(1)
          \/ CacheBuild(1)
          \/ CacheOpenWrite(1)
          \/ CacheDump(1)
          \/ CacheReturn(1)
       /\ UNCHANGED <<globalsV, datasetsV, callV, poolV, classifyV>>
    \/ ReturnSoftDocSims

SpecConfig == InitConfig /\ [][NextConfig]_vars

\* the configurations with a defined branch everywhere
HasBranches(p) ==
    /\ p["weights"] \in {"bow", "tfidf"}
    /\ p["task"] = "classification"
    /\ \/ p["measure"] = "wmd"
       \/ /\ p["measure"] = "inner_product"
          /\ p["space"] \in {"vsm", "dense_soft_vsm", "sparse_soft_vsm"}

\* C13: a call of get_similarities with a configuration that lacks a
\* branch can only end in the fault of reading query_corpus or doc_sims
\* unassigned, with no matrix; a call with a configuration that has all its
\* branches never faults, and when it returns it returns a matrix with a
\* row per query and a column per collection document.
C13_FaultIffNoBranch ==
    /\ pc \in {"UnboundLocalError: query_corpus", "UnboundLocalError: doc_sims"} =>
          /\ ~HasBranches(params)
          /\ doc_sims = <<>>
    /\ pc = "UnboundLocalError: query_corpus" =>
          params["weights"] \notin {"bow", "tfidf"} \/ params["task"] # "classification"
    /\ pc \in {"pool", "term_matrix", "done"} => HasBranches(params)
    /\ pc = "done" => DOMAIN doc_sims = Cells(Len(validation.corpus), Len(train.corpus))

\* a call with the documented weights 'binary' has faulted on query_corpus
\* after it encoded the collection
C13_Witness ==
    /\ pc = "UnboundLocalError: query_corpus"
    /\ params["weights"] = "binary"
    /\ params["task"] = "classification"
    /\ collection_corpus # <<>>

(***************************************************************************)
(* Dataset.classify with space == 'random' (specification SpecRandom).     *)
(***************************************************************************)
\* The generator of module random: the Mersenne Twister is replaced by a
\* linear congruential generator of 64 states, which like it is a fixed
\* function from state to state.
RandomNext(state) == (state * 21 + 11) % 64

\* random.seed without effect
RandomSeedKept(state, seed) == state

\* line 1039: random.seed(42) sets the state from the seed alone
RandomSeed(state, seed) == seed % 64

\* line 1040: random.choice(classes) once for every label, each call
\* advancing the generator; the predictions and the state that is left
RECURSIVE RandomChoices(_, _, _)
RandomChoices(state, classes, n) ==
    IF n = 0 THEN [y_pred |-> <<>>, state |-> state]
    ELSE LET drawn == RandomNext(state)
             rest  == RandomChoices(drawn, classes, n - 1)
         IN  [y_pred |-> <<classes[((drawn \div 4) % Len(classes)) + 1]>> \o rest.y_pred,
              state  |-> rest.state]

\* ClassificationResult.from_results: a result of true and predicted labels
from_results(y_true, y_pred, p) == [y_true |-> y_true, y_pred |-> y_pred, params |-> p]

\* lines 1025-1042: classify with space == 'random'
ClassifyRandom(weights, measure, num_bits) ==
    /\ classify_pc = "call"
    /\ LET y_true  == test.target
           classes == SetToSeq({y_true[i] : i \in 1..Len(y_true)})
           drawn   == RandomChoices(RandomSeed(random_state, 42), classes, Len(y_true))
       IN  /\ params' = BaseParams("random", weights, measure, num_bits)
           /\ random_state' = drawn.state
           /\ final_result' = from_results(y_true, drawn.y_pred, params')
    /\ classify_pc' = "returned"
    /\ UNCHANGED <<globalsV, datasetsV, pc, collection_corpus, query_corpus, doc_sims, poolV, cacheV,
                   test, grid, grid_index, k_index, results, best_result, accuracy_model,
                   previous_result, similarity_calls,
                   grid_specification>>

MaxTest == 3

\* the test sets: one document per label
RandomTests ==
    {from_documents([i \in 1..Len(target) |-> <<"a">>], "test", target) :
        target \in UNION {[1..len -> {0, 1, 2}] : len \in 1..MaxTest}}

\* the caller uses the generator for something else
RandomUsedElsewhere ==
    /\ classify_pc = "call"
    /\ random_state' = RandomNext(random_state)
    /\ UNCHANGED <<globalsV, datasetsV, callV, poolV, cacheV, test, classify_pc, grid, grid_index,
                   k_index, results, best_result, final_result, accuracy_model, previous_result,
                   similarity_calls,
                   grid_specification>>

\* the caller keeps the result and calls classify again, with any test set
ClassifyAgain ==
    /\ classify_pc = "returned"
    /\ previous_result' = final_result
    /\ final_result' = <<>>
    /\ params' = <<>>
    /\ test' \in RandomTests
    /\ classify_pc' = "call"
    /\ UNCHANGED <<globalsV, train, validation, original, loaded, file_pc, pc,
                   collection_corpus, query_corpus, doc_sims,
                   poolV, cacheV, grid, grid_index, k_index, results, best_result, accuracy_model,
                   random_state, similarity_calls,
                   grid_specification>>

InitRandom ==
    /\ InitGlobals
    /\ InitNoFile
    /\ train = from_documents(ClassifyTrain, "train", Labels(ClassifyTrain))
    /\ validation = from_documents(ClassifyTrain, "validation", Labels(ClassifyTrain))
    /\ test \in RandomTests
    /\ params = <<>>
    /\ pc = "idle"
    /\ collection_corpus = <<>>
    /\ query_corpus = <<>>
    /\ doc_sims = <<>>
    /\ tasks = {}
    /\ outqueue = {}
    /\ writes = <<>>
    /\ InitCache
    /\ classify_pc = "call"
    /\ grid = <<>>
    /\ grid_index = 0
    /\ k_index = 0
    /\ results = <<>>
    /\ best_result = <<>>
    /\ final_result = <<>>
    /\ accuracy_model = "flat"
    /\ random_state \in {0, 42}
    /\ previous_result = <<>>
    /\ similarity_calls = <<>>
    /\ grid_specification = <<>>

NextRandom ==
    \/ ClassifyRandom("random", "random", "random")
    \/ RandomUsedElsewhere
    \/ ClassifyAgain

SpecRandom == InitRandom /\ [][NextRandom]_vars

\* C14: classify with space == 'random' returns at once, with no
\* similarity matrix computed and no grid searched; it predicts one label
\* for every test label, each a label of the test set, and the labels it
\* predicts are those the call before predicted whenever that call had
\* the same test labels.
C14_RandomBaseline ==
    classify_pc = "returned" =>
        /\ doc_sims = <<>> /\ collection_corpus = <<>> /\ query_corpus = <<>>
        /\ grid = <<>> /\ results = <<>> /\ best_result = <<>>
        /\ final_result.y_true = test.target
        /\ Len(final_result.y_pred) = Len(test.target)
        /\ \A i \in 1..Len(final_result.y_pred) :
              \E j \in 1..Len(test.target) : final_result.y_pred[i] = test.target[j]
        /\ (previous_result # <<>> /\ previous_result.y_true = final_result.y_true)
              => previous_result.y_pred = final_result.y_pred

\* a second call with the test labels of the first has returned
\* predictions that are not all the same label
C14_Witness ==
    /\ classify_pc = "returned"
    /\ previous_result # <<>>
    /\ previous_result.y_true = final_result.y_true
    /\ \E i, j \in 1..Len(final_result.y_pred) : final_result.y_pred[i] # final_result.y_pred[j]

(***************************************************************************)
(* Dataset.to_file and Dataset.from_file (specification SpecFile).         *)
(***************************************************************************)
\* The pickle of vars(self): one item per attribute, each value written out
\* as a flat sequence (a list with its length first, a dict as its keys and
\* values, a float by its parts, None as the length -1).
EncodeCorpus(corpus) ==
    <<Len(corpus)>> \o Flatten([i \in 1..Len(corpus) |-> <<Len(corpus[i])>> \o corpus[i]])

RECURSIVE DecodeDocuments(_, _)
DecodeDocuments(flat, n) ==
    IF n = 0 THEN <<>>
    ELSE <<SubSeq(flat, 2, 1 + flat[1])>>
             \o DecodeDocuments(SubSeq(flat, 2 + flat[1], Len(flat)), n - 1)

DecodeCorpus(flat) == DecodeDocuments(Tail(flat), flat[1])

EncodeDictionary(token2id) ==
    Flatten([i \in 1..Cardinality(DOMAIN token2id) |-> <<IdToken(token2id, i - 1), i - 1>>])

DecodeDictionary(flat) ==
    [token \in {flat[2 * i - 1] : i \in 1..(Len(flat) \div 2)} |->
        flat[2 * (CHOOSE i \in 1..(Len(flat) \div 2) : flat[2 * i - 1] = token)]]

\* a target is None or a list of classes
NoTarget == [is_none |-> TRUE, list |-> <<>>]

SomeTarget(list) == [is_none |-> FALSE, list |-> list]

EncodeTarget(target) == IF target.is_none THEN <<-1>> ELSE <<Len(target.list)>> \o target.list

DecodeTarget(flat) == IF flat[1] = -1 THEN NoTarget ELSE SomeTarget(Tail(flat))

\* line 1005: pickle.dump(vars(self), f, 4)
dump_vars(self) ==
    <<[key |-> "name", value |-> <<self.name>>],
      [key |-> "corpus", value |-> EncodeCorpus(self.corpus)],
      [key |-> "avgdl", value |-> <<self.avgdl.k, self.avgdl.s, self.avgdl.n, self.avgdl.d>>],
      [key |-> "dictionary", value |-> EncodeDictionary(self.dictionary)],
      [key |-> "target", value |-> EncodeTarget(self.target)]>>

\* the value pickled under a key
Pickled(content, key) == content[CHOOSE i \in 1..Len(content) : content[i].key = key].value

\* load_kwargs that reads no target
load_kwargs_no_target(content) ==
    [name       |-> Pickled(content, "name")[1],
     corpus     |-> DecodeCorpus(Pickled(content, "corpus")),
     avgdl      |-> LET a == Pickled(content, "avgdl")
                    IN  [k |-> a[1], s |-> a[2], n |-> a[3], d |-> a[4]],
     dictionary |-> DecodeDictionary(Pickled(content, "dictionary")),
     target     |-> NoTarget]

\* line 992: kwargs = pickle.load(f)
load_kwargs(content) ==
    [name       |-> Pickled(content, "name")[1],
     corpus     |-> DecodeCorpus(Pickled(content, "corpus")),
     avgdl      |-> LET a == Pickled(content, "avgdl")
                    IN  [k |-> a[1], s |-> a[2], n |-> a[3], d |-> a[4]],
     dictionary |-> DecodeDictionary(Pickled(content, "dictionary")),
     target     |-> DecodeTarget(Pickled(content, "target"))]

\* lines 989 and 1002
DatasetFilename(name) == "corpora/" \o name \o ".pkl.xz"

\* lines 997-1005
to_file ==
    /\ file_pc = "made"
    /\ store' = Put(store, DatasetFilename(original.name), dump_vars(original))
    /\ file_pc' = "saved"
    /\ UNCHANGED <<globalsV, train, validation, original, loaded, callV, poolV, calls, built,
                   classifyV>>

\* lines 976-995, called with the name of the Dataset just saved
from_file ==
    /\ file_pc = "saved"
    /\ loaded' = [load_kwargs(store[DatasetFilename(original.name)]) EXCEPT !.name = original.name]
    /\ file_pc' = "loaded"
    /\ UNCHANGED <<globalsV, train, validation, original, callV, poolV, cacheV, classifyV>>

MaxDocuments == 2

FileDocs == {<<>>, <<"bb", "a", "bb">>}

\* Datasets as from_documents makes them, with and without classes
FileDatasets ==
    {from_documents(corpus, name, target) :
        corpus \in Corpora(FileDocs, MaxDocuments), name \in {"fil8", "test"},
        target \in {NoTarget}} \cup
    {from_documents(corpus, name, SomeTarget(Labels(corpus))) :
        corpus \in Corpora(FileDocs, MaxDocuments), name \in {"fil8", "test"}}

\* the program goes on to another Dataset; the files stay
NextDataset ==
    /\ file_pc = "loaded"
    /\ original' \in FileDatasets
    /\ loaded' = <<>>
    /\ file_pc' = "made"
    /\ UNCHANGED <<globalsV, train, validation, callV, poolV, cacheV, classifyV>>

InitFile ==
    /\ InitGlobals
    /\ InitNoCall
    /\ InitCache
    /\ InitNoClassify
    /\ original \in FileDatasets
    /\ loaded = <<>>
    /\ file_pc = "made"

NextFile == to_file \/ from_file \/ NextDataset

SpecFile == InitFile /\ [][NextFile]_vars

\* C15: the Dataset that from_file(d.name) returns right after d.to_file()
\* has the name, the corpus, the avgdl, the dictionary and the target of d.
C15_FileRoundTrip ==
    file_pc = "loaded" =>
        /\ loaded.name = original.name
        /\ loaded.corpus = original.corpus
        /\ loaded.avgdl = original.avgdl
        /\ loaded.dictionary = original.dictionary
        /\ loaded.target = original.target

\* a Dataset with classes, an empty document and a document with a
\* repeated token has been loaded from a file that replaced an older one
C15_Witness ==
    /\ file_pc = "loaded"
    /\ ~loaded.target.is_none
    /\ \E i, j \in 1..Len(loaded.corpus) : loaded.corpus[i] = <<>> /\ Len(loaded.corpus[j]) = 3
    /\ Cardinality(DOMAIN store) = 2

(***************************************************************************)
(* translate_embeddings at the start of the program (specification         *)
(* SpecEmbed).                                                             *)
(***************************************************************************)
\* lines 1254-1261: the embeddings of every quantization level are
\* translated with the common dictionary; an exception ends the program
\* with neither global assigned
TranslateCommonEmbeddings ==
    /\ common_embedding_matrices = <<>>
    /\ LET matrices == [num_bits \in NumBitsSet |->
                           translate_embeddings(CommonEmbeddings[num_bits], common_dictionary)]
       IN  IF \E num_bits \in NumBitsSet : matrices[num_bits] = ValueError
           THEN /\ common_embedding_matrices' = ValueError
                /\ common_embedding_matrices_norm_squared' = <<>>
           ELSE /\ common_embedding_matrices' = matrices
                /\ common_embedding_matrices_norm_squared' =
                       [num_bits \in NumBitsSet |-> NormSquared(matrices[num_bits])]
    /\ UNCHANGED <<common_dictionary, datasetsV, callV, poolV, cacheV, classifyV>>

MaxVocabulary == 4

\* corpora of documents of one token: their dictionaries are the tokens
\* in every order
EmbedCorpora == UNION {[1..len -> {<<token>> : token \in Tokens}] : len \in 1..MaxVocabulary}

InitEmbed ==
    /\ common_dictionary \in {Dictionary(corpus) : corpus \in EmbedCorpora}
    /\ common_embedding_matrices = <<>>
    /\ common_embedding_matrices_norm_squared = <<>>
    /\ InitNoFile
    /\ InitNoCall
    /\ InitCache
    /\ InitNoClassify

NextEmbed == TranslateCommonEmbeddings

SpecEmbed == InitEmbed /\ [][NextEmbed]_vars

\* C16 as stated: for every vocabulary, one without a term in the
\* embedding space included, translate_embeddings returns a matrix with a
\* row for every id, the source vector for a term the embeddings have and
\* zero for any other term.
C16_RowsCopiedOrZero ==
    common_embedding_matrices # <<>> =>
        \A num_bits \in NumBitsSet :
            /\ DOMAIN common_embedding_matrices = NumBitsSet
            /\ DOMAIN common_embedding_matrices[num_bits]
                   = 0..(Cardinality(DOMAIN common_dictionary) - 1)
            /\ \A token \in DOMAIN common_dictionary :
                  common_embedding_matrices[num_bits][common_dictionary[token]] =
                      IF token \in DOMAIN CommonEmbeddings[num_bits].vocab
                      THEN CommonEmbeddings[num_bits].vectors[
                               CommonEmbeddings[num_bits].vocab[token]]
                      ELSE 0

(***************************************************************************)
(* The selection of the best result (specification SpecClassify).          *)
(***************************************************************************)
\* the place of a grid point in the grid
GridIndexOf(grid_params) == CHOOSE g \in 1..Len(grid) : grid[g] = grid_params

\* C17: the best result is a validation result no other result exceeds,
\* and of the results equal to it, it is the one appended first, which is
\* the one of the earliest grid point and, within it, of the smallest k.
C17_FirstGreatest ==
    classify_pc \in {"test", "evaluate", "returned"} =>
        \E i \in 1..Len(results) :
            /\ best_result = results[i]
            /\ \A j \in 1..Len(results) : results[j].result.accuracy <= results[i].result.accuracy
            /\ \A j \in 1..Len(results) :
                  (j # i /\ results[i].result.accuracy <= results[j].result.accuracy) =>
                      /\ i < j
                      /\ \/ GridIndexOf(results[i].grid_params) < GridIndexOf(results[j].grid_params)
                         \/ /\ results[i].grid_params = results[j].grid_params
                            /\ results[i].k < results[j].k

\* classify has returned after a grid search in which two results of
\* different grid points were the greatest, and the best result is neither
\* the first result nor the last
C17_Witness ==
    /\ classify_pc = "returned"
    /\ \E i, j \in 1..Len(results) :
          /\ i > 1
          /\ best_result = results[i]
          /\ results[j].grid_params # results[i].grid_params
          /\ results[i].result.accuracy <= results[j].result.accuracy
          /\ results[j].result.accuracy <= results[i].result.accuracy
          /\ results[i].result.accuracy > results[1].result.accuracy

(***************************************************************************)
(* classify over the vector space model and the sparse soft vector space   *)
(* model (specification SpecGrid).                                         *)
(***************************************************************************)
MaxValues == 2

MaxDimensions == 3

\* the first values of the first dimensions of a grid specification, and
\* the first value of every other dimension
Bounded(specification) ==
    [d \in 1..Len(specification) |->
        <<specification[d][1],
          SubSeq(specification[d][2], 1,
                 IF d <= MaxDimensions
                 THEN Min({MaxValues, Len(specification[d][2])})
                 ELSE 1)>>]

\* lines 1067-1068 for the sparse soft VSM: the next grid point is put into
\* params and get_similarities is entered with the validation set
ClassifyGridPointSoft ==
    /\ classify_pc = "grid"
    /\ params["space"] = "sparse_soft_vsm"
    /\ similarity_calls' = Append(similarity_calls, SimilarityCall(validation))
    /\ params' = Update(params, grid[grid_index + 1])
    /\ pc' = "call"
    /\ classify_pc' = "validation_call"
    /\ UNCHANGED <<globalsV, datasetsV, collection_corpus, query_corpus, doc_sims, poolV, cacheV,
                   test, grid, grid_index, k_index, results, best_result, final_result,
                   accuracy_model, random_state, previous_result,
                   grid_specification>>

\* line 1077 for the sparse soft VSM: get_similarities is entered with the
\* test set
ClassifyTestSoft ==
    /\ classify_pc = "test"
    /\ params["space"] = "sparse_soft_vsm"
    /\ similarity_calls' = Append(similarity_calls, SimilarityCall(test))
    /\ pc' = "call"
    /\ classify_pc' = "test_call"
    /\ UNCHANGED <<globalsV, datasetsV, params, collection_corpus, query_corpus, doc_sims, poolV,
                   cacheV, test, grid, grid_index, k_index, results, best_result, final_result,
                   accuracy_model, random_state, previous_result,
                   grid_specification>>

\* lines 1068 and 1077: get_similarities has returned doc_sims
ClassifySoftReturned ==
    /\ classify_pc \in {"validation_call", "test_call"}
    /\ pc = "done"
    /\ pc' = "idle"
    /\ k_index' = 0
    /\ classify_pc' = IF classify_pc = "validation_call" THEN "knn" ELSE "evaluate"
    /\ UNCHANGED <<globalsV, datasetsV, params, collection_corpus, query_corpus, doc_sims, poolV,
                   cacheV, test, grid, grid_index, results, best_result, final_result,
                   accuracy_model, random_state, previous_result, similarity_calls,
                   grid_specification>>

GridSpaces == {"vsm", "sparse_soft_vsm"}

GridWeights == {"bow", "tfidf"}

\* the arguments of the term similarity matrices of the bounded grid
GridArgs ==
    {TermArgs(Update(BaseParams("sparse_soft_vsm", "bow", "inner_product", 32), grid_params)) :
        grid_params \in {grid_search(Bounded(SparseGrid))[g] :
                            g \in 1..Len(grid_search(Bounded(SparseGrid)))}}

\* the last of them in the order of the grid
LastGridArgs ==
    TermArgs(Update(BaseParams("sparse_soft_vsm", "bow", "inner_product", 32),
                    grid_search(Bounded(SparseGrid))[Len(grid_search(Bounded(SparseGrid)))]))

\* the directory matrices left by earlier runs: a file for every matrix of
\* the grid, or for every matrix but the last
GridStores ==
    {[filename \in {Filename(TermBasename(args)) : args \in kept} |->
         pickle_dump(TermMatrix(Symmetric3(Zero, Zero)))] :
        kept \in {GridArgs, GridArgs \ {LastGridArgs}}}

InitGrid ==
    /\ InitGlobals
    /\ InitNoFile
    /\ train = from_documents(ClassifyTrain, "train", Labels(ClassifyTrain))
    /\ validation = from_documents(<< <<"a">>, <<"bb", "ccc">> >>, "validation",
                                   Labels(<< <<"a">>, <<"bb", "ccc">> >>))
    /\ test = from_documents(<< <<"bb", "ccc">> >>, "test", Labels(<< <<"bb", "ccc">> >>))
    /\ params = <<>>
    /\ pc = "idle"
    /\ collection_corpus = <<>>
    /\ query_corpus = <<>>
    /\ doc_sims = <<>>
    /\ tasks = {}
    /\ outqueue = {}
    /\ writes = <<>>
    /\ store \in GridStores
    /\ calls = [p \in Procs |-> [pc |-> "idle"]]
    /\ built = <<>>
    /\ classify_pc = "call"
    /\ grid = <<>>
    /\ grid_index = 0
    /\ k_index = 0
    /\ results = <<>>
    /\ best_result = <<>>
    /\ final_result = <<>>
    /\ accuracy_model = "peak"
    /\ random_state = 0
    /\ previous_result = <<>>
    /\ similarity_calls = <<>>
    /\ grid_specification = <<>>

NextGrid ==
    \/ \E space \in GridSpaces, weights \in GridWeights :
          ClassifyStartOn(Bounded(GridSpecification(space, weights)),
                          space, weights, "inner_product", 32)
    \/ ClassifyGridPoint
    \/ ClassifyGridPointSoft
    \/ GetSimilaritiesSoft
    \/ /\ \/ CacheOpenRead(1)
          \/ CacheLoad(1)
          \/ CacheBuild(1)
          \/ CacheOpenWrite(1)
          \/ CacheDump(1)
          \/ CacheReturn(1)
       /\ UNCHANGED <<globalsV, datasetsV, callV, poolV, classifyV>>
    \/ ReturnSoftDocSims
    \/ ClassifySoftReturned
    \/ ClassifyKnn
    \/ ClassifySelect
    \/ ClassifyTest
    \/ ClassifyTestSoft
    \/ ClassifyReturn

SpecGrid == InitGrid /\ [][NextGrid]_vars

\* the keys of a grid specification
KeysOf(specification) ==
    {specification[d][1] : d \in 1..Len(specification)}

\* the dimensions the grid is to have
DimensionsFor(space, weights) ==
    (IF weights = "tfidf" THEN {"slope"} ELSE {})
        \cup (IF space = "sparse_soft_vsm"
              THEN {"symmetric", "dominant", "tfidf", "nonzero_limit", "threshold", "exponent"}
              ELSE {})

\* C18: with space != 'random' the grid has the dimension slope iff weights
\* is 'tfidf' and the six dimensions of the sparse soft VSM iff space is
\* 'sparse_soft_vsm'; for every grid point get_similarities is called once
\* with the validation set, before any of the ten evaluations (k = 1, 3,
\* ..., 19) of the grid point and after those of the grid points before it,
\* and once more with the test set after all grid points; so there are 10
\* validation results per grid point.
C18_GridAndCalls ==
    /\ \A space \in ConfigSpaces \ {"random"}, weights \in ConfigWeights :
          KeysOf(GridSpecification(space, weights)) = DimensionsFor(space, weights)
    /\ classify_pc # "call" =>
          /\ Len(grid) >= 1
          /\ \A g \in 1..Len(grid) :
                DOMAIN grid[g] = DimensionsFor(params["space"], params["weights"])
          /\ Len(similarity_calls) <= Len(grid) + 1
          /\ \A c \in 1..Len(similarity_calls) :
                similarity_calls[c] =
                    [queries    |-> IF c <= Len(grid) THEN "validation" ELSE "test",
                     grid_index |-> c - 1,
                     results    |-> 10 * (c - 1)]
          /\ \A i \in 1..Len(results) :
                /\ results[i].grid_params = grid[((i - 1) \div 10) + 1]
                /\ results[i].k = 2 * ((i - 1) % 10) + 1
                /\ Len(similarity_calls) >= ((i - 1) \div 10) + 1
          /\ classify_pc \in {"validation_call", "knn"} =>
                /\ Len(similarity_calls) = grid_index + 1
                /\ Len(results) = 10 * grid_index + k_index
          /\ classify_pc \in {"grid", "select", "test"} =>
                /\ Len(similarity_calls) = grid_index
                /\ Len(results) = 10 * grid_index
          /\ classify_pc \in {"test_call", "evaluate", "returned"} =>
                /\ Len(similarity_calls) = Len(grid) + 1
                /\ Len(results) = 10 * Len(grid)

\* classify has returned after a grid search over the slope and the
\* dimensions of the sparse soft VSM
C18_Witness ==
    /\ classify_pc = "returned"
    /\ params["space"] = "sparse_soft_vsm"
    /\ params["weights"] = "tfidf"
    /\ Len(grid) > MaxValues
    /\ Len(similarity_calls) = Len(grid) + 1
    /\ Len(results) = 10 * Len(grid)

(***************************************************************************)
(* The documents of the worker pool (specification SpecConfig).            *)
(***************************************************************************)
\* the sum of the weights of a document
WeightSum(document) == FSum([i \in 1..Len(document) |-> document[i][2]])

\* C19 as stated: with measure == 'wmd' every query document and every
\* collection document that has a term and is handed to inverse_wmd_worker
\* is L1-normalized, its weights sum to 1, for the weights 'bow' and
\* 'tfidf'.
C19_WorkerDocumentsL1 ==
    (pc = "pool" /\ params["measure"] = "wmd") =>
        \A cell \in tasks :
            /\ TaskArgs(cell)[1][2] # <<>> => WeightSum(TaskArgs(cell)[1][2]) = Int2Num(1)
            /\ TaskArgs(cell)[2][2] # <<>> => WeightSum(TaskArgs(cell)[2][2]) = Int2Num(1)

(***************************************************************************)
(* The names of the files of the term similarity matrices (specification   *)
(* SpecKey).                                                               *)
(***************************************************************************)
\* the values of a dimension of the grid of the sparse soft VSM
ValuesOf(key) ==
    LET d == CHOOSE e \in 1..Len(SparseGrid) : SparseGrid[e][1] = key
    IN  {SparseGrid[d][2][i] : i \in 1..Len(SparseGrid[d][2])}

\* the arguments of the term similarity matrices of the whole grid, for
\* either quantization level
KeyArgs ==
    [num_bits : NumBitsSet, tfidf : ValuesOf("tfidf"), symmetric : ValuesOf("symmetric"),
     dominant : ValuesOf("dominant"), nonzero_limit : ValuesOf("nonzero_limit"),
     threshold : ValuesOf("threshold"), exponent : ValuesOf("exponent")]

\* lines 1203-1217: a process asks for the matrix of a point of the grid
NextKey ==
    /\ \E p \in Procs :
          /\ calls[p].pc = "idle"
          /\ \E args \in KeyArgs : CacheCall(p, args)
    /\ UNCHANGED <<globalsV, datasetsV, callV, poolV, classifyV>>

SpecKey == InitCacheCalls /\ [][NextKey]_vars

\* C20: the name of the file of a term similarity matrix is made of the
\* quantization level, the TF-IDF flag, the symmetric flag, the dominant
\* flag, the nonzero limit, the threshold and the exponent, in this order,
\* and over the grid two requests have the same name if and only if they
\* have the same seven parameters.
C20_KeyInjective ==
    \A p, q \in Procs :
        (calls[p].pc = "open_read" /\ calls[q].pc = "open_read") =>
            /\ calls[p].filename =
                   "matrices/termsim-" \o ToString(calls[p].args.num_bits)
                       \o "-" \o FormatBool(calls[p].args.tfidf)
                       \o "-" \o FormatBool(calls[p].args.symmetric)
                       \o "-" \o FormatBool(calls[p].args.dominant)
                       \o "-" \o ToString(calls[p].args.nonzero_limit)
                       \o "-" \o FormatFloat(calls[p].args.threshold)
                       \o "-" \o ToString(calls[p].args.exponent) \o ".pkl.xz"
            /\ (calls[p].filename = calls[q].filename) <=> (calls[p].args = calls[q].args)

\* two requests that differ in the threshold alone, one of them negative
C20_Witness ==
    /\ calls[1].pc = "open_read"
    /\ calls[2].pc = "open_read"
    /\ calls[1].args.threshold = -5
    /\ calls[2].args.threshold = 5
    /\ [calls[1].args EXCEPT !.threshold = 5] = calls[2].args
    /\ calls[1].filename # calls[2].filename

(***************************************************************************)
(* What the calls of get_similarities, classify and inverse_wmd_worker     *)
(* change (specification SpecFrame): a call of get_similarities under any  *)
(* configuration, or a call of classify.                                   *)
(***************************************************************************)
InitFrame == InitConfig \/ InitGrid

NextFrame ==
    \/ GetSimilaritiesFault
    \/ GetSimilaritiesWmd
    \/ \E cell \in tasks : WorkerReturns(cell)
    \/ \E result \in outqueue : ReceiveResult(result)
    \/ ReturnDocSims
    \/ GetSimilaritiesVsm
    \/ GetSimilaritiesDense
    \/ GetSimilaritiesSoft
    \/ /\ \/ CacheOpenRead(1)
          \/ CacheLoad(1)
          \/ CacheBuild(1)
          \/ CacheOpenWrite(1)
          \/ CacheDump(1)
          \/ CacheReturn(1)
       /\ UNCHANGED <<globalsV, datasetsV, callV, poolV, classifyV>>
    \/ ReturnSoftDocSims
    \/ ClassifyRandom("random", "random", "random")
    \/ \E space \in GridSpaces, weights \in GridWeights :
          ClassifyStartOn(Bounded(GridSpecification(space, weights)),
                          space, weights, "inner_product", 32)
    \/ ClassifyGridPoint
    \/ ClassifyGridPointSoft
    \/ ClassifySoftReturned
    \/ ClassifyKnn
    \/ ClassifySelect
    \/ ClassifyTest
    \/ ClassifyTestSoft
    \/ ClassifyReturn

SpecFrame == InitFrame /\ [][NextFrame]_vars

\* the shared vocabulary, the embedding tables, their squared norms and the
\* Datasets of the call stay as they are
SharedKept ==
    /\ common_dictionary' = common_dictionary
    /\ common_embedding_matrices' = common_embedding_matrices
    /\ common_embedding_matrices_norm_squared' = common_embedding_matrices_norm_squared
    /\ train' = train
    /\ validation' = validation
    /\ test' = test

\* the keys classify and get_similarities put into params after the dict
\* is made
AddedKeys ==
    {"collection_corpus", "query_corpus", "k", "slope", "symmetric", "dominant", "tfidf",
     "nonzero_limit", "threshold", "exponent"}

\* of params, only the cached corpora, k, the grid values and the speed
\* logs change
ParamsKept ==
    params # <<>> =>
        /\ DOMAIN params \subseteq DOMAIN params'
        /\ DOMAIN params' \subseteq DOMAIN params \cup AddedKeys
        /\ \A key \in DOMAIN params \ (AddedKeys \cup {"speed_logs"}) : params'[key] = params[key]

\* C21 as stated: no step of a call changes the shared vocabulary, the
\* embedding tables, their squared norms or the Datasets, and the calls
\* change nothing but params, the store of the term similarity matrices and
\* the result matrix; so the generator of module random stays as it is.
C21_OnlyParamsStoreMatrix ==
    [][SharedKept /\ ParamsKept /\ random_state' = random_state]_vars

\* C21, amended: no step of a call changes the shared vocabulary, the
\* embedding tables, their squared norms or the Datasets; of params only
\* the cached corpora, k, the grid values and the speed logs change; and
\* the generator of module random is changed by classify with space ==
\* 'random' alone.
C21_SharedReadOnly ==
    [][/\ SharedKept
       /\ ParamsKept
       /\ random_state' # random_state =>
             (params = <<>> /\ params'["space"] = "random")]_vars

\* a call of classify has returned after a grid search over the sparse soft
\* VSM, which filled the store, and the shared data is what it was built as
C21_Witness ==
    /\ classify_pc = "returned"
    /\ params["space"] = "sparse_soft_vsm"
    /\ built # <<>>
    /\ Has(params, "collection_corpus")
    /\ common_dictionary = Dictionary(CommonCorpus)
    /\ train = from_documents(ClassifyTrain, "train", Labels(ClassifyTrain))

(***************************************************************************)
(* Two processes that ask for the same matrix at the same time, with no    *)
(* file for it in the directory matrices (specification SpecCacheRace).    *)
(***************************************************************************)
\* line 716: a process makes its one call, with the arguments of the call
\* of the other process if that has made its call
CacheCallSame(p, args) ==
    /\ calls[p].pc = "idle"
    /\ \A q \in Procs : calls[q].pc # "idle" => calls[q].args = args
    /\ CacheCall(p, args)

NextCacheRace ==
    \/ \E p \in Procs, args \in CacheArgs :
          CacheCallSame(p, args) /\ UNCHANGED <<globalsV, datasetsV, callV, poolV, classifyV>>
    \/ \E p \in Procs :
          /\ \/ CacheOpenRead(p)
             \/ CacheLoad(p)
             \/ CacheBuild(p)
             \/ CacheOpenWrite(p)
             \/ CacheDump(p)
             \/ CacheReturn(p)
          /\ UNCHANGED <<globalsV, datasetsV, callV, poolV, classifyV>>

SpecCacheRace == InitCacheCalls /\ [][NextCacheRace]_vars

\* C22 as stated: when two processes call with the same key and the store
\* has no entry for it, no call reads an entry that is partially written,
\* no call fails, and when both calls have returned, both have returned the
\* matrix that was built and the store holds a whole entry of it.
C22_ConcurrentBuildersSafe ==
    /\ \A p \in Procs :
          /\ calls[p].pc # "raised"
          /\ calls[p].pc = "load" => IsWholePickle(store[calls[p].filename])
    /\ (\A p \in Procs : calls[p].pc = "returned") =>
          \A p \in Procs :
              /\ Has(store, calls[p].filename)
              /\ IsWholePickle(store[calls[p].filename])
              /\ \E i \in 1..Len(built[calls[p].filename]) :
                    calls[p].term_matrix = built[calls[p].filename][i]

(***************************************************************************)
(* grid_search on any grid specification (specification SpecGridSearch).   *)
(***************************************************************************)
MaxKeys == 2

MaxGridValues == 2

\* the value lists of a dimension, some empty, some with a value twice
GridValueLists == UNION {[1..len -> {1, 2}] : len \in 0..MaxGridValues}

\* the grid specifications: dicts of up to MaxKeys keys
GridSpecifications ==
    UNION {{specification \in [1..len -> {"slope", "threshold", "exponent"} \X GridValueLists] :
               \A d, e \in 1..len : d # e => specification[d][1] # specification[e][1]} :
           len \in 0..MaxKeys}

\* lines 667-672: the generator is run to its end
GridSearch ==
    /\ classify_pc = "grid_search"
    /\ grid' = grid_search(grid_specification)
    /\ classify_pc' = "grid"
    /\ UNCHANGED <<globalsV, datasetsV, callV, poolV, cacheV, test, grid_index, k_index, results,
                   best_result, final_result, accuracy_model, random_state, previous_result,
                   similarity_calls, grid_specification>>

InitGridSearch ==
    /\ InitGlobals
    /\ InitNoFile
    /\ InitNoCall
    /\ InitCache
    /\ test = <<>>
    /\ classify_pc = "grid_search"
    /\ grid = <<>>
    /\ grid_index = 0
    /\ k_index = 0
    /\ results = <<>>
    /\ best_result = <<>>
    /\ final_result = <<>>
    /\ accuracy_model = "flat"
    /\ random_state = 0
    /\ previous_result = <<>>
    /\ similarity_calls = <<>>
    /\ grid_specification \in GridSpecifications

NextGridSearch == GridSearch

SpecGridSearch == InitGridSearch /\ [][NextGridSearch]_vars

\* the choices of one position in every value list of the grid
\* specification
Choices ==
    {choice \in [1..Len(grid_specification) -> 1..MaxGridValues] :
        \A d \in 1..Len(grid_specification) : choice[d] <= Len(grid_specification[d][2])}

\* the dict of a choice: every key with the value at the chosen position
ChoiceDict(choice) ==
    [key \in KeysOf(grid_specification) |->
        LET d == CHOOSE e \in 1..Len(grid_specification) : grid_specification[e][1] = key
        IN  grid_specification[d][2][choice[d]]]

\* C23: for an empty specification grid_search yields one empty dict and
\* nothing else; for any other it yields dicts that map every key of the
\* specification to one of its values, and every element of the Cartesian
\* product of the value lists once: as many dicts as there are choices of
\* a position in every list, and each dict as often as choices make it.
C23_GridIsProduct ==
    classify_pc = "grid" =>
        /\ grid_specification = <<>> => grid = << <<>> >>
        /\ Len(grid) = Cardinality(Choices)
        /\ \A g \in 1..Len(grid) :
              /\ DOMAIN grid[g] = KeysOf(grid_specification)
              /\ \E choice \in Choices : grid[g] = ChoiceDict(choice)
        /\ \A choice \in Choices :
              Cardinality({g \in 1..Len(grid) : grid[g] = ChoiceDict(choice)})
                  = Cardinality({other \in Choices : ChoiceDict(other) = ChoiceDict(choice)})

\* grid_search has yielded the four dicts of two keys with two different
\* values each
C23_Witness ==
    /\ classify_pc = "grid"
    /\ Len(grid_specification) = 2
    /\ Len(grid) = 4
    /\ \A g, h \in 1..Len(grid) : g # h => grid[g] # grid[h]
====
